---------------------------- MODULE Spec2Model ----------------------------
(***************************************************************************)
(* AI Employee Vault (Bronze and Silver tier): the folder-based task       *)
(* pipeline of main.py, agent_skills.py and orchestrator.py.               *)
(*                                                                         *)
(* The vault on disk is the record fs: one field per folder, each a        *)
(* function from file name to file, plus the dashboard document and the    *)
(* per-day audit log.  File names and file contents are strings; the       *)
(* skills are operators from a vault to a vault and a return value, and    *)
(* handlers compose them in the order of the source.  Files hold the text  *)
(* the content reader decodes (UTF-8 text without a byte order mark).      *)
(* System_Logs.md (append-only, never read back) is not part of the state. *)
(***************************************************************************)
EXTENDS Integers, Sequences, FiniteSets, TLC

VARIABLES
    fs,       \* the vault on disk
    now,      \* wall clock, in seconds after 12:00:00
    last,     \* the operation executed by the latest step, with its result
    events,   \* watchdog queue of created-events not yet dispatched
    orch,     \* the Orchestrator process: its processed_files
    drops,    \* the files (by ino) the external actor has created in the vault
    runs,     \* number of skill invocations made through the registry
    procs,    \* the processes appending to the per-day audit log, mid-append
    sched     \* the AIEmployeeScheduler process: its clock and its schedules

vars == <<fs, now, last, events, orch, drops, runs, procs, sched>>

(***************************************************************************)
(* Bounds of the model.                                                    *)
(***************************************************************************)
MaxFrags == 2      \* fragments concatenated into an input content
MaxRuns  == 2      \* skill invocations in the skill-level specification
MaxClock == 1      \* seconds the clock may advance
MaxDrops == 3      \* files the external actor creates

(***************************************************************************)
(* Strings: str.lower, the `in` operator, splitlines, strip, startswith.   *)
(***************************************************************************)
\* str.lower of one ASCII character
LowerMap ==
    [A |-> "a", B |-> "b", C |-> "c", D |-> "d", E |-> "e", F |-> "f", G |-> "g",
     H |-> "h", I |-> "i", J |-> "j", K |-> "k", L |-> "l", M |-> "m", N |-> "n",
     O |-> "o", P |-> "p", Q |-> "q", R |-> "r", S |-> "s", T |-> "t", U |-> "u",
     V |-> "v", W |-> "w", X |-> "x", Y |-> "y", Z |-> "z"]

LowerChar(c) == IF c \in DOMAIN LowerMap THEN LowerMap[c] ELSE c

\* str.lower, character by character (the two halves keep the recursion shallow)
RECURSIVE lower(_)
lower(s) ==
    IF Len(s) = 0 THEN ""
    ELSE IF Len(s) = 1 THEN LowerChar(s)
    ELSE lower(SubSeq(s, 1, Len(s) \div 2)) \o lower(SubSeq(s, Len(s) \div 2 + 1, Len(s)))

\* Python: kw in s
Contains(s, kw) ==
    \E i \in 1..(Len(s) - Len(kw) + 1) : SubSeq(s, i, i + Len(kw) - 1) = kw

StartsWith(s, p) == Len(s) >= Len(p) /\ SubSeq(s, 1, Len(p)) = p

EndsWith(s, p) == Len(s) >= Len(p) /\ SubSeq(s, Len(s) - Len(p) + 1, Len(s)) = p

\* index of the first occurrence of the one-character string c in s, 0 if none
Find(s, c) ==
    IF \E i \in 1..Len(s) : SubSeq(s, i, i) = c
    THEN CHOOSE i \in 1..Len(s) :
            /\ SubSeq(s, i, i) = c
            /\ \A j \in 1..(i - 1) : SubSeq(s, j, j) # c
    ELSE 0

\* index of the last occurrence of c in s, 0 if none (str.rfind, 1-based)
RFind(s, c) ==
    IF \E i \in 1..Len(s) : SubSeq(s, i, i) = c
    THEN CHOOSE i \in 1..Len(s) :
            /\ SubSeq(s, i, i) = c
            /\ \A j \in (i + 1)..Len(s) : SubSeq(s, j, j) # c
    ELSE 0

RECURSIVE splitlines(_)
splitlines(s) ==
    IF Len(s) = 0 THEN << >>
    ELSE LET i == Find(s, "\n")
         IN  IF i = 0 THEN << s >>
             ELSE << SubSeq(s, 1, i - 1) >> \o splitlines(SubSeq(s, i + 1, Len(s)))

IsSpace(c) == c \in {" ", "\n", "\t", "\r"}

RECURSIVE lstrip(_)
lstrip(s) ==
    IF Len(s) > 0 /\ IsSpace(SubSeq(s, 1, 1)) THEN lstrip(SubSeq(s, 2, Len(s))) ELSE s

RECURSIVE rstrip(_)
rstrip(s) ==
    IF Len(s) > 0 /\ IsSpace(SubSeq(s, Len(s), Len(s)))
    THEN rstrip(SubSeq(s, 1, Len(s) - 1)) ELSE s

strip(s) == lstrip(rstrip(s))

(***************************************************************************)
(* pathlib: Path.stem and Path.suffix of a file name.                      *)
(***************************************************************************)
suffix(name) ==
    LET i == RFind(name, ".")
    IN  IF 1 < i /\ i < Len(name) THEN SubSeq(name, i, Len(name)) ELSE ""

stem(name) == SubSeq(name, 1, Len(name) - Len(suffix(name)))

(***************************************************************************)
(* datetime.now().strftime: the clock counts the seconds since             *)
(* 2026-11-04 12:00:00 and stays inside November 2026.                     *)
(***************************************************************************)
TwoDigits(n) == IF n < 10 THEN "0" \o ToString(n) ELSE ToString(n)

\* the fields of the local time t seconds after 2026-11-04 12:00:00
DayOf(t)    == 4 + ((t + 43200) \div 86400)
HourOf(t)   == ((t + 43200) \div 3600) % 24
MinuteOf(t) == (t \div 60) % 60
SecondOf(t) == t % 60

\* "%Y-%m-%d"
strftime_date(t) == "2026-11-" \o TwoDigits(DayOf(t))

\* "%Y%m%d%H%M%S"
strftime_compact(t) ==
    "202611" \o TwoDigits(DayOf(t)) \o TwoDigits(HourOf(t)) \o TwoDigits(MinuteOf(t))
        \o TwoDigits(SecondOf(t))

\* "%Y-%m-%d %H:%M"
strftime_minute(t) ==
    strftime_date(t) \o " " \o TwoDigits(HourOf(t)) \o ":" \o TwoDigits(MinuteOf(t))

\* datetime.isoformat(), to the second
isoformat(t) ==
    strftime_date(t) \o "T" \o TwoDigits(HourOf(t)) \o ":" \o TwoDigits(MinuteOf(t))
        \o ":" \o TwoDigits(SecondOf(t))

(***************************************************************************)
(* The file system.  A file is [ino, content, mtime]: ino names the        *)
(* physical file (a rename keeps it), mtime is the rank of its last write  *)
(* in the order of all writes to the vault.  A path is <<folder, name>>.   *)
(***************************************************************************)
Folders ==
    {"Inbox", "Needs_Action", "Done", "Plans", "Pending_Approval", "Approved", "Rejected"}

NoFiles == [n \in {} |-> [ino |-> 0, content |-> "", mtime |-> 0]]

NoDashboard == [tier |-> "none"]

EmptyVault ==
    [Inbox |-> NoFiles, Needs_Action |-> NoFiles, Done |-> NoFiles, Plans |-> NoFiles,
     Pending_Approval |-> NoFiles, Approved |-> NoFiles, Rejected |-> NoFiles,
     Posted |-> NoFiles, Drafts |-> NoFiles, Briefings |-> NoFiles,
     Dashboard |-> NoDashboard, Logs |-> << >>, LogText |-> << >>, seq |-> 0]

exists(f, p) == p[2] \in DOMAIN f[p[1]]

read_text(f, p) == f[p[1]][p[2]].content

PutFile(dir, name, file) ==
    [n \in (DOMAIN dir) \cup {name} |-> IF n = name THEN file ELSE dir[n]]

DelFile(dir, name) == [n \in (DOMAIN dir) \ {name} |-> dir[n]]

\* Path.write_text: create the file, or replace the content of an existing one
write_text(f, p, text) ==
    LET s    == f.seq + 1
        file == IF exists(f, p)
                THEN [f[p[1]][p[2]] EXCEPT !.content = text, !.mtime = s]
                ELSE [ino |-> s, content |-> text, mtime |-> s]
    IN  [f EXCEPT ![p[1]] = PutFile(@, p[2], file), !.seq = s]

\* open(p, "a").write(text): append, creating the file when it is missing
append_text(f, p, text) ==
    LET s    == f.seq + 1
        file == IF exists(f, p)
                THEN [f[p[1]][p[2]] EXCEPT !.content = @ \o text, !.mtime = s]
                ELSE [ino |-> s, content |-> text, mtime |-> s]
    IN  [f EXCEPT ![p[1]] = PutFile(@, p[2], file), !.seq = s]

\* shutil.move(src, dst) of a regular file: os.rename, which replaces a file
\* that already exists at dst
shutil_move(f, src, dst) ==
    LET file == f[src[1]][src[2]]
        g    == [f EXCEPT ![src[1]] = DelFile(@, src[2])]
    IN  [g EXCEPT ![dst[1]] = PutFile(@, dst[2], file)]

\* AgentSkill._read_file of an existing text file
read_file(f, p) == read_text(f, p)

\* the names of a folder in ascending order of st_mtime
RECURSIVE sorted_by_mtime(_)
sorted_by_mtime(dir) ==
    IF DOMAIN dir = {} THEN << >>
    ELSE LET n == CHOOSE m \in DOMAIN dir : \A k \in DOMAIN dir : dir[m].mtime <= dir[k].mtime
         IN  << n >> \o sorted_by_mtime(DelFile(dir, n))

Reverse(s) == [i \in 1..Len(s) |-> s[Len(s) + 1 - i]]

AnyOf(content, kws) == \E kw \in kws : Contains(content, kw)

(***************************************************************************)
(* Skills.  Each skill operator takes the vault, the file path and the     *)
(* clock, and yields the vault after the call and the returned dict.       *)
(***************************************************************************)

\* ClassifySkill.execute, classify_task: the level of a decoded content
classify_soon_first(content) ==
    IF Contains(lower(content), "soon") THEN "Medium"
    ELSE IF Contains(lower(content), "urgent") THEN "High"
    ELSE "Low"

classify_urgency(content) ==
    IF Contains(lower(content), "urgent") THEN "High"
    ELSE IF Contains(lower(content), "soon") THEN "Medium"
    ELSE "Low"

ClassifySkill(f, p) ==
    LET urgency == classify_urgency(read_file(f, p))
    IN  [fs  |-> append_text(f, p, "\nUrgency: " \o urgency \o "\n"),
         ret |-> [urgency |-> urgency]]

\* MoveToeDoneSkill.execute: the destination name in Done
done_dest(f, name, t) ==
    IF exists(f, <<"Done", name>>)
    THEN stem(name) \o "_" \o strftime_compact(t) \o suffix(name)
    ELSE name

MoveToeDoneSkill(f, p, t) ==
    LET dest == done_dest(f, p[2], t)
    IN  [fs  |-> shutil_move(f, p, <<"Done", dest>>),
         ret |-> [destination |-> dest]]

\* PlanCreatorSkill.execute: the approval keywords
PlanKeywords == {"payment", "invoice", "send", "post", "delete", "urgent"}

plan_needs_approval_no_lower(content) == AnyOf(content, PlanKeywords)

plan_needs_approval(content) == AnyOf(lower(content), PlanKeywords)

plan_status(needs_approval) == IF needs_approval THEN "pending_approval" ELSE "ready"

\* the steps of a plan: the stripped non-blank lines that are no annotation
plan_steps(content) ==
    LET lines == SelectSeq([i \in 1..Len(splitlines(content)) |-> strip(splitlines(content)[i])],
                           LAMBDA l : l # "")
        steps == SelectSeq(lines, LAMBDA l : ~StartsWith(l, "Urgency:") /\ ~StartsWith(l, "---"))
    IN  IF steps = << >> THEN << "Review task - no actionable content found" >> ELSE steps

RECURSIVE steps_md(_, _)
steps_md(steps, i) ==
    IF i > Len(steps) THEN ""
    ELSE "- [ ] Step " \o ToString(i) \o ": " \o steps[i] \o "\n" \o steps_md(steps, i + 1)

PyBool(b) == IF b THEN "True" ELSE "False"

plan_content(name, content, t) ==
    LET needs_approval == plan_needs_approval(content)
        steps == plan_steps(content)
    IN  "---\ncreated: " \o isoformat(t)
        \o "\nsource_file: " \o name
        \o "\nstatus: " \o plan_status(needs_approval)
        \o "\napproval_required: " \o PyBool(needs_approval)
        \o "\n---\n\n## Objective\nProcess task from: " \o name
        \o "\n\n## Steps\n" \o steps_md(steps, 1)
        \o "\n## Status\n- **Created:** " \o strftime_minute(t)
        \o "\n- **Steps:** " \o ToString(Len(steps))
        \o "\n- **Approval Required:** " \o (IF needs_approval THEN "Yes" ELSE "No")
        \o "\n\n## Notes\n"
        \o (IF needs_approval
            THEN "This plan requires human approval before execution."
            ELSE "This plan can be auto-executed.")
        \o "\n"

PlanCreatorSkill(f, p, t) ==
    LET content == read_file(f, p)
        needs_approval == plan_needs_approval(content)
        plan_file == "PLAN_" \o stem(p[2]) \o "_" \o strftime_compact(t) \o ".md"
    IN  [fs  |-> write_text(f, <<"Plans", plan_file>>, plan_content(p[2], content, t)),
         ret |-> [plan_file |-> plan_file,
                  steps |-> Len(plan_steps(content)),
                  needs_approval |-> needs_approval,
                  status |-> plan_status(needs_approval)]]

\* HumanApprovalSkill.execute (Silver): the action type of a content
action_type_linkedin_first(content) ==
    IF Contains(lower(content), "linkedin") THEN "linkedin_post"
    ELSE IF Contains(lower(content), "email") THEN "email_send"
    ELSE IF Contains(lower(content), "payment") \/ Contains(lower(content), "invoice")
         THEN "payment"
    ELSE "general"

approval_action_type(content) ==
    IF Contains(lower(content), "email") THEN "email_send"
    ELSE IF Contains(lower(content), "linkedin") THEN "linkedin_post"
    ELSE IF Contains(lower(content), "payment") \/ Contains(lower(content), "invoice")
         THEN "payment"
    ELSE "general"

\* action_type.replace("_", " ").title()
action_title(action_type) ==
    CASE action_type = "email_send"    -> "Email Send"
      [] action_type = "linkedin_post" -> "Linkedin Post"
      [] action_type = "payment"       -> "Payment"
      [] OTHER                         -> "General"

ExcerptLen == 500

Prefix(s, n) == SubSeq(s, 1, IF Len(s) < n THEN Len(s) ELSE n)

approval_content(name, content, t) ==
    LET action_type == approval_action_type(content)
    IN  "---\ntype: approval_request\naction: " \o action_type
        \o "\nsource_file: " \o name
        \o "\ncreated: " \o isoformat(t)
        \o "\nexpires: " \o strftime_date(t) \o "T23:59:59Z"
        \o "\nstatus: pending\n---\n\n## Approval Required - " \o action_title(action_type)
        \o "\n\n### Original Content\n" \o Prefix(content, ExcerptLen)
        \o "\n\n### Action Details\n- **Type:** " \o action_type
        \o "\n- **Source:** " \o name
        \o "\n- **Created:** " \o strftime_minute(t)
        \o "\n\n### To Approve\nMove this file to the /Approved folder."
        \o "\n\n### To Reject\nMove this file to the /Rejected folder.\n"

\* the name of the Approval Request of a task file
approval_file_name(name, t) ==
    "APPROVAL_" \o stem(name) \o "_" \o strftime_compact(t) \o ".md"

HumanApprovalSkill(f, p, t) ==
    LET content == read_file(f, p)
        action_type == approval_action_type(content)
        approval_file == approval_file_name(p[2], t)
        f1 == write_text(f, <<"Pending_Approval", approval_file>>,
                         approval_content(p[2], content, t))
        f2 == append_text(f1, p,
                  "\n--- AWAITING HUMAN APPROVAL ---\nFlagged at: " \o strftime_minute(t)
                  \o "\nStatus: PENDING REVIEW\nApproval file: " \o approval_file \o "\n")
    IN  [fs  |-> f2,
         ret |-> [status |-> "awaiting_approval", file |-> p[2],
                  approval_file |-> approval_file, action_type |-> action_type]]

\* update_dashboard: the urgency shown for a Done file
RECURSIVE first_urgency_line(_, _)
first_urgency_line(lines, i) ==
    IF i > Len(lines) THEN "Low"
    ELSE IF StartsWith(lines[i], "Urgency:")
         THEN strip(SubSeq(lines[i], Len("Urgency:") + 1, Len(lines[i])))
         ELSE first_urgency_line(lines, i + 1)

shown_urgency(content) == first_urgency_line(splitlines(content), 1)

task_rows(dir, names) ==
    IF names = << >> THEN << <<"-", "-">> >>
    ELSE [i \in 1..Len(names) |-> <<names[i], shown_urgency(dir[names[i]].content)>>]

\* the number of most recently modified Done files the Silver table lists
RecentCap == 20

recent_names_oldest(dir) == Prefix(sorted_by_mtime(dir), RecentCap)

recent_names(dir) == Prefix(Reverse(sorted_by_mtime(dir)), RecentCap)

Count(dir) == Cardinality(DOMAIN dir)

\* a dashboard whose Total Completed adds to the total of the document it
\* replaces
UpdateDashboardSkill_accumulating(f, t) ==
    LET earlier == IF f.Dashboard.tier = "Silver" THEN f.Dashboard.total_completed ELSE 0
        doc == [tier |-> "Silver",
                last_updated |-> strftime_minute(t),
                total_completed |-> earlier + Count(f.Done),
                inbox |-> Count(f.Inbox),
                needs_action |-> Count(f.Needs_Action),
                done |-> Count(f.Done),
                plans |-> Count(f.Plans),
                pending |-> Count(f.Pending_Approval),
                approved |-> Count(f.Approved),
                rejected |-> Count(f.Rejected),
                rows |-> task_rows(f.Done, recent_names(f.Done))]
    IN  [fs  |-> [f EXCEPT !.Dashboard = doc],
         ret |-> [done_count |-> Count(f.Done), pending_approvals |-> Count(f.Pending_Approval)]]

\* UpdateDashboardSkill.execute of the Silver tier
UpdateDashboardSkill(f, t) ==
    LET doc == [tier |-> "Silver",
                last_updated |-> strftime_minute(t),
                total_completed |-> Count(f.Done),
                inbox |-> Count(f.Inbox),
                needs_action |-> Count(f.Needs_Action),
                done |-> Count(f.Done),
                plans |-> Count(f.Plans),
                pending |-> Count(f.Pending_Approval),
                approved |-> Count(f.Approved),
                rejected |-> Count(f.Rejected),
                rows |-> task_rows(f.Done, recent_names(f.Done))]
    IN  [fs  |-> [f EXCEPT !.Dashboard = doc],
         ret |-> [done_count |-> Count(f.Done), pending_approvals |-> Count(f.Pending_Approval)]]

\* update_dashboard of the Bronze tier
update_dashboard(f, t) ==
    [f EXCEPT !.Dashboard =
        [tier |-> "Bronze",
         last_updated |-> strftime_minute(t),
         total_completed |-> Count(f.Done),
         inbox |-> Count(f.Inbox),
         needs_action |-> Count(f.Needs_Action),
         done |-> Count(f.Done),
         rows |-> task_rows(f.Done, sorted_by_mtime(f.Done))]]

\* AuditLogSkill.execute; p = NoPath stands for file_path = None
NoPath == <<"", "">>

\* an action type that looks for "linkedin" before "email"
audit_action_type_linkedin_first(fname) ==
    IF Contains(lower(fname), "linkedin") THEN "linkedin_action"
    ELSE IF Contains(lower(fname), "email") THEN "email_action"
    ELSE IF Contains(lower(fname), "approval") THEN "approval_action"
    ELSE IF Contains(lower(fname), "plan") THEN "plan_action"
    ELSE "file_action"

audit_action_type(fname) ==
    IF Contains(lower(fname), "email") THEN "email_action"
    ELSE IF Contains(lower(fname), "linkedin") THEN "linkedin_action"
    ELSE IF Contains(lower(fname), "approval") THEN "approval_action"
    ELSE IF Contains(lower(fname), "plan") THEN "plan_action"
    ELSE "file_action"

DetailsLen == 200

(***************************************************************************)
(* json.loads on the text of a log file: the value's type and, for an      *)
(* array, its items; error stands for json.JSONDecodeError.  A text is a   *)
(* value between optional white space and nothing else.                    *)
(***************************************************************************)
CharAt(s, i) == IF i >= 1 /\ i <= Len(s) THEN SubSeq(s, i, i) ELSE ""

TextAt(s, i, w) == i + Len(w) - 1 <= Len(s) /\ SubSeq(s, i, i + Len(w) - 1) = w

JsonError == [error |-> TRUE]

Digits == {"0", "1", "2", "3", "4", "5", "6", "7", "8", "9"}

HexDigits == Digits \cup {"a", "b", "c", "d", "e", "f", "A", "B", "C", "D", "E", "F"}

RECURSIVE skip_whitespace(_, _)
skip_whitespace(s, i) ==
    IF IsSpace(CharAt(s, i)) THEN skip_whitespace(s, i + 1) ELSE i

RECURSIVE skip_digits(_, _)
skip_digits(s, i) ==
    IF CharAt(s, i) \in Digits THEN skip_digits(s, i + 1) ELSE i

\* the number pattern (-?(?:0|[1-9]\d*))(\.\d+)?([eE][-+]?\d+)? matched at i:
\* the position after the match, 0 when there is none.  j is the position
\* after the sign, k after the integer part, f after the fraction, g that of
\* the first digit of the exponent.
number_exp_digits(s, f, g) ==
    IF CharAt(s, f) \in {"e", "E"} /\ CharAt(s, g) \in Digits
    THEN skip_digits(s, g) ELSE f

number_exp(s, f) ==
    number_exp_digits(s, f, IF CharAt(s, f + 1) \in {"+", "-"} THEN f + 2 ELSE f + 1)

number_frac(s, j, k) ==
    IF k = j THEN 0
    ELSE number_exp(s, IF CharAt(s, k) = "." /\ CharAt(s, k + 1) \in Digits
                       THEN skip_digits(s, k + 1) ELSE k)

number_int(s, j) ==
    number_frac(s, j, IF CharAt(s, j) = "0" THEN j + 1 ELSE skip_digits(s, j))

number_end(s, i) == number_int(s, IF CharAt(s, i) = "-" THEN i + 1 ELSE i)

\* the number of characters the character c of a string, followed by n,
\* stands for with its escape; 0 for the end of the text, a control
\* character or a wrong escape
char_width(s, i, c, n) ==
    IF c = "" \/ c \in {"\n", "\t", "\r"} THEN 0
    ELSE IF c # "\\" THEN 1
    ELSE IF n \in {"\"", "\\", "/", "b", "f", "n", "r", "t"} THEN 2
    ELSE IF n = "u" /\ \A k \in 2..5 : CharAt(s, i + k) \in HexDigits THEN 6
    ELSE 0

\* the position after the closing quote of the string whose characters start
\* at i, 0 when the string is not terminated or holds a character of width 0
RECURSIVE string_end(_, _)
string_step(s, i, c, width) ==
    IF c = "\"" THEN i + 1
    ELSE IF width = 0 THEN 0
    ELSE string_end(s, i + width)

string_end(s, i) ==
    string_step(s, i, CharAt(s, i), char_width(s, i, CharAt(s, i), CharAt(s, i + 1)))

\* the literals of the scanner, with the type of their value
Literals ==
    << <<"null", "NoneType">>, <<"true", "bool">>, <<"false", "bool">>,
       <<"NaN", "float">>, <<"Infinity", "float">>, <<"-Infinity", "float">> >>

literal_value(i, k) == [type |-> Literals[k][2], next |-> i + Len(Literals[k][1])]

number_value(s, i, e) ==
    [type |-> IF \E k \in i..(e - 1) : CharAt(s, k) \in {".", "e", "E"}
              THEN "float" ELSE "int",
     next |-> e]

literal_or_number(s, i, lits) ==
    IF lits # {} THEN literal_value(i, CHOOSE k \in lits : TRUE)
    ELSE number_value(s, i, number_end(s, i))

\* a value that is no array and no object, at i: its type and the position
\* after it (0 when there is no value at i)
scalar_at(s, i) ==
    IF CharAt(s, i) = "\"" THEN [type |-> "str", next |-> string_end(s, i + 1)]
    ELSE literal_or_number(s, i, {k \in 1..Len(Literals) : TextAt(s, i, Literals[k][1])})

\* the scanner's state c: the position i, the open arrays and objects (stack,
\* innermost last), what is expected at i (mode), the type of the whole value
\* once it is complete and the types of the items of the outermost array
ScanError(c) == [c EXCEPT !.mode = "error"]

\* a value of the given type ended before position e
value_complete(c, type, e) ==
    IF c.stack = << >>
    THEN IF skip_whitespace(c.text, e) <= Len(c.text) THEN ScanError(c)
         ELSE [c EXCEPT !.mode = "done", !.type = type, !.i = e]
    ELSE [c EXCEPT !.mode = "after", !.i = e,
                   !.items = IF c.stack = <<"list">>
                             THEN Append(@, [type |-> type]) ELSE @]

scalar_complete(c, v) ==
    IF v.next = 0 THEN ScanError(c) ELSE value_complete(c, v.type, v.next)

\* a value is expected at i, whose character is ch; j is the position of what
\* follows an opening bracket
scan_value(c, s, i, ch, j) ==
    IF ch = "["
    THEN IF CharAt(s, j) = "]" THEN value_complete(c, "list", j + 1)
         ELSE [c EXCEPT !.stack = Append(@, "list"), !.i = j]
    ELSE IF ch = "{"
    THEN IF CharAt(s, j) = "}" THEN value_complete(c, "dict", j + 1)
         ELSE [c EXCEPT !.stack = Append(@, "dict"), !.mode = "key", !.i = j]
    ELSE scalar_complete(c, scalar_at(s, i))

\* a key was expected and ended before e (0: there is none); k is the
\* position of what follows it
scan_colon(c, s, e, k) ==
    IF e = 0 \/ CharAt(s, k) # ":" THEN ScanError(c)
    ELSE [c EXCEPT !.mode = "value", !.i = k + 1]

scan_key(c, s, e) == scan_colon(c, s, e, skip_whitespace(s, e))

\* after a value inside the array or object top: a comma or the closing
\* bracket
scan_after(c, i, ch, top) ==
    IF ch = ","
    THEN [c EXCEPT !.mode = IF top = "list" THEN "value" ELSE "key", !.i = i + 1]
    ELSE IF (ch = "]" /\ top = "list") \/ (ch = "}" /\ top = "dict")
    THEN value_complete([c EXCEPT !.stack = SubSeq(@, 1, Len(@) - 1)], top, i + 1)
    ELSE ScanError(c)

scan_at(c, s, i) ==
    IF c.mode = "value"
    THEN scan_value(c, s, i, CharAt(s, i), skip_whitespace(s, i + 1))
    ELSE IF c.mode = "key"
    THEN scan_key(c, s, IF CharAt(s, i) = "\"" THEN string_end(s, i + 1) ELSE 0)
    ELSE scan_after(c, i, CharAt(s, i), c.stack[Len(c.stack)])

scan_step(c) == scan_at(c, c.text, skip_whitespace(c.text, c.i))

RECURSIVE scan(_)
scan(c) == IF c.mode \in {"done", "error"} THEN c ELSE scan(scan_step(c))

scan_result(c) ==
    IF c.mode = "error" THEN JsonError
    ELSE [error |-> FALSE, type |-> c.type, items |-> c.items]

json_loads(text) ==
    scan_result(scan([text |-> text, i |-> 1, stack |-> << >>, mode |-> "value",
                      type |-> "", items |-> << >>]))

\* a log that forgets the entries of the file
log_entries_reset(log, entry) == << entry >>

\* AuditLogSkill.execute: the array read from the day's log file (empty when
\* there is none) with the new entry appended
log_entries(log, entry) == Append(log, entry)

\* AuditLogSkill.execute: the entry it builds
audit_entry(f, p, t) ==
    LET present == p # NoPath /\ exists(f, p)
    IN  [timestamp |-> isoformat(t),
         action_type |-> IF present THEN audit_action_type(p[2]) ELSE "unknown",
         actor |-> "ai_employee",
         target |-> IF p # NoPath THEN p[2] ELSE "system",
         details |-> IF present THEN Prefix(read_file(f, p), DetailsLen) ELSE "",
         result |-> "success"]

\* AuditLogSkill.execute: the value of entries before entries.append.  Logs is
\* the array of a file that json.dumps wrote; LogText is <<text>> when the
\* day's file holds a text that something else wrote, and v is what
\* json.loads makes of it.
entries_or_empty(v) ==
    IF v.error THEN [type |-> "list", items |-> << >>]
    ELSE [type |-> v.type, items |-> v.items]

loaded_entries(f) ==
    IF f.LogText = << >> THEN [type |-> "list", items |-> f.Logs]
    ELSE entries_or_empty(json_loads(f.LogText[1]))

audit_result(f, t, entry, entries) ==
    [fs  |-> [f EXCEPT !.Logs = entries, !.LogText = << >>],
     ret |-> [log_file |-> strftime_date(t) \o ".json",
              action_type |-> entry.action_type,
              entries_count |-> Len(entries),
              raised |-> "none"]]

\* entries.append raises AttributeError on a value that is no list
audit_append(f, t, entry, loaded) ==
    IF loaded.type # "list"
    THEN [fs |-> f, ret |-> [raised |-> "AttributeError"]]
    ELSE audit_result(f, t, entry, log_entries(loaded.items, entry))

AuditLogSkill(f, p, t) == audit_append(f, t, audit_entry(f, p, t), loaded_entries(f))

(***************************************************************************)
(* SpecSkills: the skills invoked through the registry on one task file,   *)
(* as registry.run(name, path) does, for every content of Contents.        *)
(***************************************************************************)
RECURSIVE Concats(_, _)
Concats(F, n) ==
    IF n = 0 THEN {""}
    ELSE LET prev == Concats(F, n - 1)
         IN  prev \cup {a \o b : a \in prev, b \in F}

ClassifyFrags == {"URGent", "ur", "gent", "soon", "SoOn", " note\n"}
PlanFrags     == {"payment", "Invoice", "SEND", "POst", "del", "ete", "urgent", "review "}
ActionFrags   == {"Email", "e", "mail", "LinkedIn", "payment", "INVOICE", " call "}

Contents ==
    Concats(ClassifyFrags, MaxFrags) \cup Concats(PlanFrags, MaxFrags)
        \cup Concats(ActionFrags, MaxFrags)

TaskPath == <<"Needs_Action", "task.txt">>

OrchIdle == [processed_files |-> {}]

\* no process is appending to the audit log
NoProcs == << >>

\* no scheduler process runs
NoScheduler == [clock |-> 0, schedules |-> << >>]

InitSkills ==
    /\ \E c \in Contents : fs = write_text(EmptyVault, TaskPath, c)
    /\ now = 0
    /\ last = [op |-> "init"]
    /\ events = << >>
    /\ orch = OrchIdle
    /\ drops = {}
    /\ runs = 0
    /\ procs = NoProcs
    /\ sched = NoScheduler

Registry_classify ==
    /\ runs < MaxRuns
    /\ LET r == ClassifySkill(fs, TaskPath)
       IN  /\ fs' = r.fs
           /\ last' = [op |-> "classify", path |-> TaskPath,
                       input |-> read_file(fs, TaskPath), ret |-> r.ret]
    /\ runs' = runs + 1
    /\ UNCHANGED <<now, events, orch, drops, procs, sched>>

Registry_plan_creator ==
    /\ runs < MaxRuns
    /\ LET r == PlanCreatorSkill(fs, TaskPath, now)
       IN  /\ fs' = r.fs
           /\ last' = [op |-> "plan_creator", path |-> TaskPath,
                       input |-> read_file(fs, TaskPath), ret |-> r.ret]
    /\ runs' = runs + 1
    /\ UNCHANGED <<now, events, orch, drops, procs, sched>>

Registry_human_approval ==
    /\ runs < MaxRuns
    /\ LET r == HumanApprovalSkill(fs, TaskPath, now)
       IN  /\ fs' = r.fs
           /\ last' = [op |-> "human_approval", path |-> TaskPath, pre |-> fs,
                       input |-> read_file(fs, TaskPath), ret |-> r.ret]
    /\ runs' = runs + 1
    /\ UNCHANGED <<now, events, orch, drops, procs, sched>>

NextSkills ==
    \/ Registry_classify
    \/ Registry_plan_creator
    \/ Registry_human_approval

SpecSkills == InitSkills /\ [][NextSkills]_vars

(***************************************************************************)
(* C1: classification returns High when the lowercased content contains    *)
(* "urgent" (whatever else it contains), Medium when it contains "soon"    *)
(* and not "urgent", Low otherwise, and the returned level is the one      *)
(* appended to the file as the line "Urgency: <level>".                    *)
(***************************************************************************)
C1_Classification ==
    last.op = "classify" =>
        LET c == lower(last.input)
            u == last.ret.urgency
        IN  /\ Contains(c, "urgent") => u = "High"
            /\ (Contains(c, "soon") /\ ~Contains(c, "urgent")) => u = "Medium"
            /\ (~Contains(c, "soon") /\ ~Contains(c, "urgent")) => u = "Low"
            /\ read_text(fs, last.path) = last.input \o "\nUrgency: " \o u \o "\n"

\* a mixed-case "urgent" that follows a "soon" was classified High
C1_Witness ==
    /\ last.op = "classify"
    /\ Contains(last.input, "soonURGent")
    /\ last.ret.urgency = "High"
    /\ EndsWith(read_text(fs, last.path), "\nUrgency: High\n")

(***************************************************************************)
(* C8: plan_creator returns needs_approval = true exactly when the         *)
(* lowercased content contains one of payment, invoice, send, post,        *)
(* delete, urgent; the returned status and the status written to the plan  *)
(* are "pending_approval" exactly then, and "ready" otherwise.             *)
(***************************************************************************)
C8_PlanApprovalFlag ==
    last.op = "plan_creator" =>
        LET c == lower(last.input)
            sensitive == \/ Contains(c, "payment") \/ Contains(c, "invoice")
                         \/ Contains(c, "send")    \/ Contains(c, "post")
                         \/ Contains(c, "delete")  \/ Contains(c, "urgent")
            plan == read_text(fs, <<"Plans", last.ret.plan_file>>)
        IN  /\ last.ret.needs_approval = sensitive
            /\ last.ret.status = (IF sensitive THEN "pending_approval" ELSE "ready")
            /\ Contains(plan, "\nstatus: " \o last.ret.status \o "\n")
            /\ Contains(plan, "\napproval_required: " \o PyBool(sensitive) \o "\n")

\* a plan flagged for approval only because of a keyword written in upper
\* case across two fragments
C8_Witness ==
    /\ last.op = "plan_creator"
    /\ last.input = "review POst"
    /\ last.ret.needs_approval
    /\ last.ret.status = "pending_approval"

(***************************************************************************)
(* C9: human_approval derives the action type in the priority order        *)
(* email, linkedin, payment or invoice, general; content with both         *)
(* "email" and "linkedin" yields "email_send".                             *)
(***************************************************************************)
C9_ActionTypePriority ==
    last.op = "human_approval" =>
        LET c == lower(last.input)
            a == last.ret.action_type
        IN  /\ Contains(c, "email") => a = "email_send"
            /\ (~Contains(c, "email") /\ Contains(c, "linkedin")) => a = "linkedin_post"
            /\ (~Contains(c, "email") /\ ~Contains(c, "linkedin")
                    /\ (Contains(c, "payment") \/ Contains(c, "invoice"))) => a = "payment"
            /\ (~Contains(c, "email") /\ ~Contains(c, "linkedin")
                    /\ ~Contains(c, "payment") /\ ~Contains(c, "invoice")) => a = "general"
            /\ Contains(read_text(fs, <<"Pending_Approval", last.ret.approval_file>>),
                        "\naction: " \o a \o "\n")

\* content naming linkedin before email was typed email_send
C9_Witness ==
    /\ last.op = "human_approval"
    /\ StartsWith(last.input, "LinkedInEmail")
    /\ last.ret.action_type = "email_send"

(***************************************************************************)
(* The environment shared by the pipeline specifications: the external     *)
(* actor creates and withdraws files in Inbox, the watchdog observer       *)
(* queues one created-event per new file, and the clock advances.          *)
(***************************************************************************)
TaskNames == {"task.txt", "task.md"}

TaskContents == {"urgent: Send invoice payment soon", "just a note"}

Drop(name, content) ==
    /\ Cardinality(drops) < MaxDrops
    /\ ~exists(fs, <<"Inbox", name>>)
    /\ fs' = write_text(fs, <<"Inbox", name>>, content)
    /\ events' = Append(events, <<"Inbox", name>>)
    /\ drops' = drops \cup {fs'.Inbox[name].ino}
    /\ last' = [op |-> "drop", src |-> name]
    /\ UNCHANGED <<now, orch, runs, procs, sched>>

Withdraw(name) ==
    /\ exists(fs, <<"Inbox", name>>)
    /\ fs' = [fs EXCEPT !.Inbox = DelFile(@, name)]
    /\ last' = [op |-> "withdraw", src |-> name]
    /\ UNCHANGED <<now, events, orch, drops, runs, procs, sched>>

Tick ==
    /\ now < MaxClock
    /\ now' = now + 1
    /\ last' = [op |-> "tick"]
    /\ UNCHANGED <<fs, events, orch, drops, runs, procs, sched>>

InitVault ==
    /\ fs = EmptyVault
    /\ now = 0
    /\ last = [op |-> "init"]
    /\ events = << >>
    /\ orch = OrchIdle
    /\ drops = {}
    /\ runs = 0
    /\ procs = NoProcs
    /\ sched = NoScheduler

(***************************************************************************)
(* Bronze tier, main.py.                                                   *)
(***************************************************************************)

\* InboxHandler.on_created: the destination name in Needs_Action
needs_action_dest(f, name, t) ==
    IF exists(f, <<"Needs_Action", name>>)
    THEN stem(name) \o "_" \o strftime_compact(t) \o suffix(name)
    ELSE name

classify_task(f, p) ==
    LET urgency == classify_urgency(read_text(f, p))
    IN  [fs  |-> append_text(f, p, "\nUrgency: " \o urgency \o "\n"),
         ret |-> urgency]

\* a move_to_done that copies the file and leaves the source in place
move_to_done_copy(f, p, t) ==
    update_dashboard(
        [f EXCEPT !.Done = PutFile(@, done_dest(f, p[2], t), f[p[1]][p[2]])], t)

move_to_done(f, p, t) ==
    update_dashboard(shutil_move(f, p, <<"Done", done_dest(f, p[2], t)>>), t)

Bronze_on_created ==
    /\ events # << >>
    /\ events' = Tail(events)
    /\ LET src == Head(events)
       IN  IF ~exists(fs, src)
           THEN /\ fs' = fs
                /\ last' = [op |-> "on_created", src |-> src[2], handled |-> FALSE]
           ELSE LET dest == <<"Needs_Action", needs_action_dest(fs, src[2], now)>>
                    f1   == shutil_move(fs, src, dest)
                    c    == classify_task(f1, dest)
                    f2   == move_to_done(c.fs, dest, now)
                IN  /\ fs' = f2
                    /\ last' = [op |-> "on_created", src |-> src[2], handled |-> TRUE,
                                ino |-> fs.Inbox[src[2]].ino,
                                input |-> read_text(fs, src),
                                urgency |-> c.ret]
    /\ UNCHANGED <<now, orch, drops, runs, procs, sched>>

NextBronze ==
    \/ \E name \in TaskNames, content \in TaskContents : Drop(name, content)
    \/ \E name \in TaskNames : Withdraw(name)
    \/ Tick
    \/ Bronze_on_created

SpecBronze == InitVault /\ [][NextBronze]_vars

\* the names under which the physical file ino is found in a folder
NamesOf(dir, ino) == {n \in DOMAIN dir : dir[n].ino = ino}

(***************************************************************************)
(* C5: Bronze pipeline.  When InboxHandler.on_created returns for a file   *)
(* that existed when the handler looked at it, the file is in neither      *)
(* Inbox nor Needs_Action, it is in Done, and its content is the original  *)
(* content followed by the line "Urgency: <level>" for the level the       *)
(* original content classifies to.                                         *)
(***************************************************************************)
C5_BronzePipeline ==
    (last.op = "on_created" /\ last.handled) =>
        LET c == lower(last.input)
            level == IF Contains(c, "urgent") THEN "High"
                     ELSE IF Contains(c, "soon") THEN "Medium" ELSE "Low"
        IN  /\ NamesOf(fs.Inbox, last.ino) = {}
            /\ NamesOf(fs.Needs_Action, last.ino) = {}
            /\ Cardinality(NamesOf(fs.Done, last.ino)) = 1
            /\ \A n \in NamesOf(fs.Done, last.ino) :
                   fs.Done[n].content = last.input \o "\nUrgency: " \o level \o "\n"
            /\ last.urgency = level

\* the handler returned for a second file of the same name, which went to
\* Done under a timestamp-suffixed name
C5_Witness ==
    /\ last.op = "on_created" /\ last.handled
    /\ last.src = "task.txt"
    /\ NamesOf(fs.Done, last.ino) = {"task_20261104120000.txt"}
    /\ EndsWith(fs.Done["task_20261104120000.txt"].content, "\nUrgency: High\n")

(***************************************************************************)
(* SpecDashboard: update_dashboard of either tier on a vault whose Done    *)
(* folder holds N files, N = 0..MaxDone, written in either order of name.  *)
(***************************************************************************)
MaxDone == 21

DoneContents ==
    << "ship it\nUrgency: High\n", "call back soon\nUrgency: Medium\n", "note\nUrgency: Low\n" >>

DoneName(k) == "f" \o TwoDigits(k) \o ".txt"

\* a Done folder of n files; file k was the k-th written (newest_first: the
\* (n+1-k)-th), with the contents of DoneContents taken in turn from shift
DoneFolder(n, shift, newest_first) ==
    LET file(k) == [ino |-> k,
                    content |-> DoneContents[((k + shift) % 3) + 1],
                    mtime |-> IF newest_first THEN n + 1 - k ELSE k]
    IN  [name \in {DoneName(k) : k \in 1..n} |->
            file(CHOOSE k \in 1..n : DoneName(k) = name)]

InitDashboard ==
    /\ \E n \in 0..MaxDone, shift \in 0..2, newest_first \in BOOLEAN :
          fs = [EmptyVault EXCEPT !.Done = DoneFolder(n, shift, newest_first), !.seq = n]
    /\ now = 0
    /\ last = [op |-> "init"]
    /\ events = << >>
    /\ orch = OrchIdle
    /\ drops = {}
    /\ runs = 0
    /\ procs = NoProcs
    /\ sched = NoScheduler

Registry_update_dashboard ==
    /\ fs' = UpdateDashboardSkill(fs, now).fs
    /\ last' = [op |-> "update_dashboard", tier |-> "Silver", pre |-> fs,
                after |-> last.op]
    /\ UNCHANGED <<now, events, orch, drops, runs, procs, sched>>

Bronze_update_dashboard ==
    /\ fs' = update_dashboard(fs, now)
    /\ last' = [op |-> "update_dashboard", tier |-> "Bronze"]
    /\ UNCHANGED <<now, events, orch, drops, runs, procs, sched>>

NextDashboard ==
    \/ Registry_update_dashboard
    \/ Bronze_update_dashboard
    \/ Tick

SpecDashboard == InitDashboard /\ [][NextDashboard]_vars

\* the number of rows of the written table that name the file n
RowsNaming(n) ==
    Cardinality({i \in 1..Len(fs.Dashboard.rows) : fs.Dashboard.rows[i][1] = n})

\* the number of Done files modified after the file n
NewerThan(n) ==
    Cardinality({m \in DOMAIN fs.Done : fs.Done[m].mtime > fs.Done[n].mtime})

(***************************************************************************)
(* C7 as stated: after update_dashboard on a vault with N files in Done,   *)
(* in either tier and for every N, the dashboard reports Total Completed   *)
(* = N and Done = N and its table has one row for each of the N names.     *)
(***************************************************************************)
C7_Original ==
    last.op = "update_dashboard" =>
        /\ fs.Dashboard.total_completed = Cardinality(DOMAIN fs.Done)
        /\ fs.Dashboard.done = Cardinality(DOMAIN fs.Done)
        /\ \A n \in DOMAIN fs.Done : RowsNaming(n) = 1

(***************************************************************************)
(* C7 as amended: after update_dashboard on a vault with N files in Done,  *)
(* the dashboard reports Total Completed = N and Done = N in both tiers;   *)
(* the Bronze table has one row for each of the N names, and the Silver    *)
(* table has one row for each of the 20 most recently modified files and   *)
(* no row for an older one.                                                *)
(***************************************************************************)
C7_DashboardCounts ==
    last.op = "update_dashboard" =>
        /\ fs.Dashboard.tier = last.tier
        /\ fs.Dashboard.total_completed = Cardinality(DOMAIN fs.Done)
        /\ fs.Dashboard.done = Cardinality(DOMAIN fs.Done)
        /\ last.tier = "Bronze" => \A n \in DOMAIN fs.Done : RowsNaming(n) = 1
        /\ last.tier = "Silver" =>
               \A n \in DOMAIN fs.Done :
                   RowsNaming(n) = (IF NewerThan(n) < 20 THEN 1 ELSE 0)

\* the Silver dashboard written for 21 Done files: 21 reported, 20 rows
C7_Witness ==
    /\ last.op = "update_dashboard" /\ last.tier = "Silver"
    /\ Cardinality(DOMAIN fs.Done) = 21
    /\ fs.Dashboard.total_completed = 21
    /\ Len(fs.Dashboard.rows) = 20
    /\ RowsNaming("f01.txt") = 0
    /\ fs.Dashboard.rows[1] = <<"f21.txt", "High">>

(***************************************************************************)
(* Silver tier: the domain skills run for an approved request.             *)
(***************************************************************************)
RECURSIVE Join(_, _)
Join(lines, sep) ==
    IF lines = << >> THEN ""
    ELSE IF Len(lines) = 1 THEN lines[1]
    ELSE lines[1] \o sep \o Join(Tail(lines), sep)

\* LinkedInAutoPostSkill.execute: the lines kept for the post body
RECURSIVE post_lines(_, _, _)
post_lines(lines, i, in_content) ==
    IF i > Len(lines) THEN << >>
    ELSE IF Contains(lines[i], "## LinkedIn Post Content") \/ Contains(lines[i], "## Content")
         THEN post_lines(lines, i + 1, TRUE)
    ELSE IF StartsWith(lines[i], "##") /\ in_content THEN << >>
    ELSE IF in_content THEN << lines[i] >> \o post_lines(lines, i + 1, in_content)
    ELSE IF ~StartsWith(lines[i], "---") /\ ~StartsWith(lines[i], "type:")
                /\ ~StartsWith(lines[i], "status:")
         THEN << lines[i] >> \o post_lines(lines, i + 1, in_content)
    ELSE post_lines(lines, i + 1, in_content)

PostLen == 500

\* DRY_RUN is left at its default, "true"
LinkedInAutoPostSkill(f, p, t) ==
    LET content == read_file(f, p)
        body    == strip(Join(post_lines(splitlines(content), 1, FALSE), "\n"))
        post_body == IF body = "" THEN strip(content) ELSE body
        result  == [content |-> Prefix(post_body, PostLen),
                    char_count |-> Len(post_body),
                    posted_at |-> isoformat(t),
                    mode |-> "dry_run",
                    status |-> "posted_dry_run"]
        record  == "post_" \o strftime_compact(t) \o ".json"
    IN  [fs  |-> write_text(f, <<"Posted", record>>, result),
         ret |-> result]

GmailSendSkill(f, p, t) ==
    LET lines == splitlines(read_file(f, p))
        subject == IF lines = << >> THEN "No Subject" ELSE lines[1]
        body == IF Len(lines) > 1 THEN strip(Join(Tail(lines), "\n")) ELSE ""
        draft == [to |-> "", subject |-> subject, body |-> body, status |-> "draft",
                  created_at |-> strftime_minute(t), source_file |-> p[2]]
        draft_file == "email_draft_" \o stem(p[2]) \o ".json"
    IN  [fs  |-> write_text(f, <<"Drafts", draft_file>>, draft),
         ret |-> [draft_file |-> draft_file, subject |-> subject, status |-> "draft"]]

\* the domain action of an approved file: ApprovalHandler.on_created and
\* Orchestrator.process_approved sniff the lowercased content and the name
approved_action(f, p) ==
    LET content == lower(read_text(f, p))
    IN  IF Contains(content, "linkedin") \/ Contains(lower(p[2]), "linkedin")
        THEN "linkedin_auto_post"
        ELSE IF Contains(content, "email") \/ Contains(lower(p[2]), "email")
        THEN "gmail_send"
        ELSE "none"

\* a dispatch that invokes both collaborators
run_approved_action_both(f, p, t) ==
    GmailSendSkill(LinkedInAutoPostSkill(f, p, t).fs, p, t).fs

run_approved_action(f, p, t) ==
    CASE approved_action(f, p) = "linkedin_auto_post" -> LinkedInAutoPostSkill(f, p, t).fs
      [] approved_action(f, p) = "gmail_send"         -> GmailSendSkill(f, p, t).fs
      [] OTHER                                        -> f

\* an archive name without the prefix
rejected_dest_plain(f, name, t) == name

\* the archive name of a rejected file
rejected_dest(f, name, t) ==
    IF exists(f, <<"Done", "REJECTED_" \o name>>)
    THEN "REJECTED_" \o stem(name) \o "_" \o strftime_compact(t) \o suffix(name)
    ELSE "REJECTED_" \o name

(***************************************************************************)
(* Silver tier: main.py (InboxHandler, ApprovalHandler, dispatched one at  *)
(* a time by the observer) and orchestrator.py (one loop iteration of      *)
(* run_cycle per step), on the same vault, with the external actor who     *)
(* resolves Approval Requests.                                             *)
(***************************************************************************)
SilverNames == {"task.txt"}

SilverContents == {"Send email: invoice payment to Client A", "just a note"}

MainKeywords == {"payment", "invoice", "send email", "post to linkedin"}

OrchKeywords == {"payment", "invoice", "send email", "post to linkedin", "delete", "urgent"}

\* a routing that runs human_approval and then move_to_done as well
route_task_both(f, p, t, keywords) ==
    LET c == ClassifySkill(f, p)
        q == PlanCreatorSkill(c.fs, p, t)
        needs_approval == AnyOf(lower(read_text(q.fs, p)), keywords)
        h == HumanApprovalSkill(q.fs, p, t).fs
    IN  [pre   |-> q.fs,
         route |-> IF needs_approval THEN "human_approval" ELSE "move_to_done",
         fs    |-> MoveToeDoneSkill(h, p, t).fs,
         urgency |-> c.ret.urgency,
         plan  |-> q.ret]

\* classify, plan_creator, then human_approval or move_to_done, as both
\* InboxHandler.on_created and process_needs_action run them; pre is the
\* vault at the call of the routed skill
route_task(f, p, t, keywords) ==
    LET c == ClassifySkill(f, p)
        q == PlanCreatorSkill(c.fs, p, t)
        needs_approval == AnyOf(lower(read_text(q.fs, p)), keywords)
    IN  [pre   |-> q.fs,
         route |-> IF needs_approval THEN "human_approval" ELSE "move_to_done",
         fs    |-> IF needs_approval THEN HumanApprovalSkill(q.fs, p, t).fs
                   ELSE MoveToeDoneSkill(q.fs, p, t).fs,
         urgency |-> c.ret.urgency,
         plan  |-> q.ret]

Silver_on_created ==
    /\ events # << >>
    /\ Head(events)[1] = "Inbox"
    /\ events' = Tail(events)
    /\ LET src == Head(events)
       IN  IF ~exists(fs, src)
           THEN /\ fs' = fs
                /\ last' = [op |-> "on_created", src |-> src[2], handled |-> FALSE]
           ELSE LET dest == <<"Needs_Action", needs_action_dest(fs, src[2], now)>>
                    f1   == shutil_move(fs, src, dest)
                    r    == route_task(f1, dest, now, MainKeywords)
                    f2   == AuditLogSkill(r.fs, IF exists(r.fs, dest) THEN dest ELSE NoPath, now).fs
                    f3   == UpdateDashboardSkill(f2, now).fs
                IN  /\ fs' = f3
                    /\ last' = [op |-> "on_created", src |-> src[2], handled |-> TRUE,
                                ino |-> fs.Inbox[src[2]].ino, before |-> fs,
                                file |-> dest, route |-> r.route, pre |-> r.pre,
                                plan |-> r.plan]
    /\ UNCHANGED <<now, orch, drops, runs, procs, sched>>

\* the destination of an approved file in Done
approved_dest(f, name, t) ==
    IF exists(f, <<"Done", name>>)
    THEN stem(name) \o "_" \o strftime_compact(t) \o suffix(name)
    ELSE name

ApprovalHandler_on_created ==
    /\ events # << >>
    /\ Head(events)[1] = "Approved"
    /\ events' = Tail(events)
    /\ LET src == Head(events)
       IN  IF ~exists(fs, src)
           THEN /\ fs' = fs
                /\ last' = [op |-> "approved_created", src |-> src[2], handled |-> FALSE]
           ELSE LET f1 == run_approved_action(fs, src, now)
                    f2 == AuditLogSkill(f1, src, now).fs
                    f3 == shutil_move(f2, src, <<"Done", approved_dest(f2, src[2], now)>>)
                    f4 == UpdateDashboardSkill(f3, now).fs
                IN  /\ fs' = f4
                    /\ last' = [op |-> "approved_created", src |-> src[2], handled |-> TRUE,
                                ino |-> fs.Approved[src[2]].ino, before |-> fs,
                                action |-> approved_action(fs, src)]
    /\ UNCHANGED <<now, orch, drops, runs, procs, sched>>

\* the orders in which iterdir may list the names of a folder
Listings(dir) ==
    LET n == Cardinality(DOMAIN dir)
    IN  {l \in [1..n -> DOMAIN dir] : \A i, j \in 1..n : l[i] = l[j] => i = j}

\* Orchestrator.process_needs_action over the listing names
RECURSIVE process_needs_action(_, _, _, _)
process_needs_action(f, processed_files, names, t) ==
    IF names = << >> THEN [fs |-> f, processed_files |-> processed_files]
    ELSE LET name == Head(names)
             p    == <<"Needs_Action", name>>
         IN  IF ~exists(f, p) \/ name \in processed_files
             THEN process_needs_action(f, processed_files, Tail(names), t)
             ELSE process_needs_action(route_task(f, p, t, OrchKeywords).fs,
                                       processed_files \cup {name}, Tail(names), t)

\* a process_approved that returns after the first name of the listing
process_approved_one(f, names, t) ==
    IF names = << >> THEN f
    ELSE LET p  == <<"Approved", Head(names)>>
             f2 == AuditLogSkill(run_approved_action(f, p, t), p, t).fs
         IN  shutil_move(f2, p, <<"Done", approved_dest(f2, Head(names), t)>>)

\* Orchestrator.process_approved over the listing names
RECURSIVE process_approved(_, _, _)
process_approved(f, names, t) ==
    IF names = << >> THEN f
    ELSE LET name == Head(names)
             p    == <<"Approved", name>>
             f1   == run_approved_action(f, p, t)
             f2   == AuditLogSkill(f1, p, t).fs
         IN  IF ~exists(f, p) THEN process_approved(f, Tail(names), t)
             ELSE process_approved(
                      shutil_move(f2, p, <<"Done", approved_dest(f2, name, t)>>),
                      Tail(names), t)

\* Orchestrator.process_rejected over the listing names
RECURSIVE process_rejected(_, _, _)
process_rejected(f, names, t) ==
    IF names = << >> THEN f
    ELSE LET name == Head(names)
             p    == <<"Rejected", name>>
             f1   == AuditLogSkill(f, p, t).fs
         IN  IF ~exists(f, p) THEN process_rejected(f, Tail(names), t)
             ELSE process_rejected(
                      shutil_move(f1, p, <<"Done", rejected_dest(f1, name, t)>>),
                      Tail(names), t)

\* Orchestrator.run_cycle: one iteration of the loop of Orchestrator.run
Orchestrator_run_cycle ==
    /\ \E ln \in Listings(fs.Needs_Action), la \in Listings(fs.Approved),
          lr \in Listings(fs.Rejected) :
          LET r  == process_needs_action(fs, orch.processed_files, ln, now)
              f1 == process_approved(r.fs, la, now)
              f2 == process_rejected(f1, lr, now)
          IN  /\ fs' = UpdateDashboardSkill(f2, now).fs
              /\ orch' = [orch EXCEPT !.processed_files = r.processed_files]
              /\ last' = [op |-> "run_cycle", before |-> fs,
                          routed |-> r.processed_files \ orch.processed_files,
                          needs |-> r.fs, approved |-> f1]
    /\ UNCHANGED <<now, events, drops, runs, procs, sched>>

\* the external actor approves a pending request: moves it into Approved
Approve(name) ==
    /\ exists(fs, <<"Pending_Approval", name>>)
    /\ ~exists(fs, <<"Approved", name>>)
    /\ fs' = shutil_move(fs, <<"Pending_Approval", name>>, <<"Approved", name>>)
    /\ events' = Append(events, <<"Approved", name>>)
    /\ last' = [op |-> "approve", src |-> name]
    /\ UNCHANGED <<now, orch, drops, runs, procs, sched>>

\* the external actor rejects a pending request: moves it into Rejected
Reject(name) ==
    /\ exists(fs, <<"Pending_Approval", name>>)
    /\ ~exists(fs, <<"Rejected", name>>)
    /\ fs' = shutil_move(fs, <<"Pending_Approval", name>>, <<"Rejected", name>>)
    /\ last' = [op |-> "reject", src |-> name]
    /\ UNCHANGED <<now, events, orch, drops, runs, procs, sched>>

\* files arrive in Inbox and nobody resolves an Approval Request
NextIntake ==
    \/ \E name \in SilverNames, content \in SilverContents : Drop(name, content)
    \/ Tick
    \/ Silver_on_created
    \/ Orchestrator_run_cycle

SpecIntake == InitVault /\ [][NextIntake]_vars

MaxTasks == 1

\* the whole approval workflow, for MaxTasks task files
NextApproval ==
    \/ \E name \in SilverNames, content \in SilverContents :
          Cardinality(drops) < MaxTasks /\ Drop(name, content)
    \/ \E name \in DOMAIN fs.Pending_Approval : Approve(name)
    \/ \E name \in DOMAIN fs.Pending_Approval : Reject(name)
    \/ Tick
    \/ Silver_on_created
    \/ ApprovalHandler_on_created
    \/ Orchestrator_run_cycle

SpecApproval == InitVault /\ [][NextApproval]_vars

\* every file of folder d in vault f is still in d in vault g, unchanged
Kept(f, g, d) ==
    \A n \in DOMAIN f[d] : n \in DOMAIN g[d] /\ g[d][n] = f[d][n]

(***************************************************************************)
(* C2: no lifecycle move overwrites an existing file.  When InboxHandler   *)
(* returns for a file it found in Inbox, its move into Needs_Action added  *)
(* exactly one file there and left every file already there unchanged,     *)
(* and so did its move into Done when the file was auto-completed.         *)
(***************************************************************************)
C2_Original ==
    (last.op = "on_created" /\ last.handled) =>
        /\ Count(last.pre.Needs_Action) = Count(last.before.Needs_Action) + 1
        /\ Kept(last.before, last.pre, "Needs_Action")
        /\ last.route = "move_to_done" =>
              /\ Count(fs.Done) = Count(last.pre.Done) + 1
              /\ Kept(last.pre, fs, "Done")

(***************************************************************************)
(* C3: move_to_done relocates.  When InboxHandler returns after it         *)
(* auto-completed a file, the source path is gone, Done holds exactly one  *)
(* file more than before the call, that file has the source's content,    *)
(* and Inbox, Plans, Pending_Approval, Approved, Rejected are as before    *)
(* the call.                                                               *)
(***************************************************************************)
C3_Original ==
    (last.op = "on_created" /\ last.handled /\ last.route = "move_to_done") =>
        /\ ~exists(fs, last.file)
        /\ Count(fs.Done) = Count(last.pre.Done) + 1
        /\ \E n \in DOMAIN fs.Done :
              /\ fs.Done[n].ino = last.ino
              /\ fs.Done[n].content = read_text(last.pre, last.file)
        /\ \A d \in {"Inbox", "Plans", "Pending_Approval", "Approved", "Rejected"} :
              fs[d] = last.pre[d]

(***************************************************************************)
(* C4: in every reachable state every file that was dropped into Inbox is  *)
(* one file in exactly one of Inbox, Needs_Action, Done.                   *)
(***************************************************************************)
C4_Original ==
    \A i \in drops :
        Cardinality(NamesOf(fs.Inbox, i)) + Cardinality(NamesOf(fs.Needs_Action, i))
            + Cardinality(NamesOf(fs.Done, i)) = 1

(***************************************************************************)
(* C6: a task whose Approval Request was approved ends in Done.  Stated    *)
(* on the settled states, where no event is queued and the orchestrator    *)
(* cycle that just ran changed nothing, so that no handler and no further  *)
(* cycle will change anything: if an approved request has been archived    *)
(* in Done, then every task file that was dropped is in Done.              *)
(***************************************************************************)
Settled == events = << >> /\ last.op = "run_cycle" /\ last.before = fs

ApprovedArchived == \E n \in DOMAIN fs.Done : StartsWith(n, "APPROVAL_")

C6_Original ==
    (Settled /\ ApprovedArchived) => \A i \in drops : NamesOf(fs.Done, i) # {}

(***************************************************************************)
(* C10: every invocation of human_approval leaves one file more in         *)
(* Pending_Approval than there was before it, and every request that was   *)
(* there is still there, unchanged.                                        *)
(***************************************************************************)
C10_Original ==
    last.op = "human_approval" =>
        /\ Count(fs.Pending_Approval) = Count(last.pre.Pending_Approval) + 1
        /\ Kept(last.pre, fs, "Pending_Approval")

(***************************************************************************)
(* C11: at most one Plan Document and at most one Approval Request is      *)
(* created per task file.  While nobody resolves a request, so that every  *)
(* request stays in Pending_Approval, Plans and Pending_Approval each hold *)
(* at most as many files as task files were dropped into Inbox.            *)
(***************************************************************************)
C11_Original ==
    /\ Count(fs.Plans) <= Cardinality(drops)
    /\ Count(fs.Pending_Approval) <= Cardinality(drops)

(***************************************************************************)
(* audit_log invoked through the registry, for files of the vault, for a   *)
(* path that does not exist and for no path, on one calendar day.          *)
(***************************************************************************)
MaxAudits == 3

AuditTargets ==
    {<<"Needs_Action", "task.txt">>, <<"Needs_Action", "Email_client.txt">>,
     <<"Needs_Action", "linkedin_post.md">>,
     <<"Pending_Approval", "APPROVAL_task_20261104120000.md">>,
     <<"Plans", "PLAN_task_20261104120000.md">>,
     <<"Needs_Action", "LinkedIn_Email_approval_plan.md">>,
     <<"Needs_Action", "gone.txt">>, NoPath}

AuditVault ==
    LET f1 == write_text(EmptyVault, <<"Needs_Action", "task.txt">>, "just a note")
        f2 == write_text(f1, <<"Needs_Action", "Email_client.txt">>, "Send email to Client A")
        f3 == write_text(f2, <<"Needs_Action", "linkedin_post.md">>, "Post to LinkedIn")
        f4 == HumanApprovalSkill(f3, <<"Needs_Action", "task.txt">>, 0).fs
        f5 == PlanCreatorSkill(f4, <<"Needs_Action", "task.txt">>, 0).fs
    IN  write_text(f5, <<"Needs_Action", "LinkedIn_Email_approval_plan.md">>,
                   "Plan the LinkedIn and email campaign")

InitAudit ==
    /\ fs = AuditVault
    /\ now = 0
    /\ last = [op |-> "init"]
    /\ events = << >>
    /\ orch = OrchIdle
    /\ drops = {}
    /\ runs = 0
    /\ procs = NoProcs
    /\ sched = NoScheduler

Registry_audit_log(p) ==
    /\ runs < MaxAudits
    /\ LET r == AuditLogSkill(fs, p, now)
       IN  /\ fs' = r.fs
           /\ last' = [op |-> "audit_log", path |-> p, pre |-> fs, ret |-> r.ret]
    /\ runs' = runs + 1
    /\ UNCHANGED <<now, events, orch, drops, procs, sched>>

NextAudit ==
    \/ \E p \in AuditTargets : Registry_audit_log(p)
    \/ Tick

SpecAudit == InitAudit /\ [][NextAudit]_vars

(***************************************************************************)
(* C12: audit entries accumulate.  After N audit_log invocations on one    *)
(* day, starting without a log file, the day's log holds exactly N         *)
(* entries; the i-th invocation returns entries_count = i, keeps the       *)
(* entries that were there in their order and puts its own entry last.     *)
(***************************************************************************)
C12_AuditAccumulates ==
    /\ Len(fs.Logs) = runs
    /\ last.op = "audit_log" =>
          /\ last.ret.entries_count = runs
          /\ SubSeq(fs.Logs, 1, runs - 1) = last.pre.Logs
          /\ fs.Logs[runs].target =
                (IF last.path = NoPath THEN "system" ELSE last.path[2])
          /\ fs.Logs[runs].timestamp = isoformat(now)

C12_Witness ==
    /\ last.op = "audit_log"
    /\ runs = 3
    /\ Len(fs.Logs) = 3
    /\ fs.Logs[1].target = "task.txt"
    /\ fs.Logs[2].target = "system"
    /\ fs.Logs[3].action_type = "email_action"

(***************************************************************************)
(* The per-day audit log written by processes that run side by side:       *)
(* audit_log of the skills, BaseWatcher.log_to_vault of a watcher and      *)
(* EmailMCPServer._log_action.  Each reads the whole array, appends its    *)
(* entry in memory and rewrites the file; write_text opens the file,       *)
(* which truncates it, and then writes.                                    *)
(***************************************************************************)
Writers == {"audit_log", "log_to_vault", "_log_action"}

\* the entry each writer appends
WriterEntry(w, f, t) ==
    CASE w = "audit_log" -> audit_entry(f, <<"Needs_Action", "task.txt">>, t)
      [] w = "log_to_vault" ->
            [timestamp |-> isoformat(t), action_type |-> "email_detected",
             actor |-> "GmailWatcher", details |-> "From: client@example.com",
             result |-> "success"]
      [] OTHER ->
            [timestamp |-> isoformat(t), action_type |-> "send_email",
             actor |-> "email_mcp_server", to |-> "client@example.com",
             subject |-> "Invoice", status |-> "draft"]

\* the earlier entries of the day's file, when there is one
EarlierLogs == {<< >>, << audit_entry(AuditVault, NoPath, 0) >>}

IdleWriter == [pc |-> "idle", entries |-> << >>, entry |-> << >>, overlapped |-> FALSE]

InitRace ==
    /\ \E log \in EarlierLogs : fs = [AuditVault EXCEPT !.Logs = log]
    /\ now = 0
    /\ last = [op |-> "init"]
    /\ events = << >>
    /\ orch = OrchIdle
    /\ drops = {}
    /\ runs = 0
    /\ procs = [w \in Writers |-> IdleWriter]
    /\ sched = NoScheduler

\* a writer that takes the array from the file as it is when it writes
array_to_write_current(read, current) == current

\* the array a writer rewrites the file with comes from what it read, not
\* from what the file holds when it writes
array_to_write(read, current) == read

\* entries = json.loads(log_file.read_text()), [] for a missing or
\* unparseable file; entries.append(entry)
Log_read(w) ==
    /\ procs[w].pc = "idle"
    /\ procs' = [procs EXCEPT ![w] = [pc |-> "read", entries |-> fs.Logs,
                                      entry |-> WriterEntry(w, fs, now),
                                      overlapped |-> FALSE]]
    /\ last' = [op |-> "log_read", proc |-> w]
    /\ UNCHANGED <<fs, now, events, orch, drops, runs, sched>>

\* write_text opens the file for writing: the file is empty until the text
\* is written
Log_open(w) ==
    /\ procs[w].pc = "read"
    /\ fs' = [fs EXCEPT !.Logs = << >>]
    /\ procs' = [procs EXCEPT ![w].pc = "opened"]
    /\ last' = [op |-> "log_open", proc |-> w]
    /\ UNCHANGED <<now, events, orch, drops, runs, sched>>

\* write_text writes the text and closes.  When another writer wrote since
\* this one opened the file, the two texts share the file from offset 0 and
\* the result is this writer's array or a text that does not parse, which
\* every reader takes for an empty array
Log_write(w) ==
    /\ procs[w].pc = "opened"
    /\ \E text \in {log_entries(array_to_write(procs[w].entries, fs.Logs), procs[w].entry)}
                    \cup (IF procs[w].overlapped THEN {<< >>} ELSE {}) :
          fs' = [fs EXCEPT !.Logs = text]
    /\ procs' = [q \in Writers |->
                    IF q = w THEN [procs[q] EXCEPT !.pc = "done"]
                    ELSE IF procs[q].pc = "opened"
                         THEN [procs[q] EXCEPT !.overlapped = TRUE]
                         ELSE procs[q]]
    /\ last' = [op |-> "log_write", proc |-> w]
    /\ UNCHANGED <<now, events, orch, drops, runs, sched>>

NextRace ==
    \/ \E w \in Writers : Log_read(w)
    \/ \E w \in Writers : Log_open(w)
    \/ \E w \in Writers : Log_write(w)

SpecRace == InitRace /\ [][NextRace]_vars

\* the entries of the log that writer w appended
InLog(w) == \E i \in 1..Len(fs.Logs) : fs.Logs[i] = procs[w].entry

\* writer w read the file after writer q had written its entry
ReadAfter(w, q) ==
    \E i \in 1..Len(procs[w].entries) : procs[w].entries[i] = procs[q].entry

(***************************************************************************)
(* C13: lost update on the per-day log.  There is an interleaving in       *)
(* which two appends complete without error and the log holds one entry    *)
(* more than before, so that one of the two entries is dropped: the log    *)
(* holds the entries of two writers that are done only if one of them      *)
(* read the file after the other had written, and whenever both read       *)
(* before either wrote, at most one of the two entries is in the log.  A   *)
(* writer rewrites the file with the array it read plus its entry.         *)
(***************************************************************************)
C13_LostUpdate ==
    /\ \A w, q \in Writers :
          (w # q /\ procs[w].pc = "done" /\ procs[q].pc = "done"
                /\ InLog(w) /\ InLog(q))
              => (ReadAfter(w, q) \/ ReadAfter(q, w))
    /\ last.op = "log_write" =>
          \/ fs.Logs = Append(procs[last.proc].entries, procs[last.proc].entry)
          \/ procs[last.proc].overlapped /\ fs.Logs = << >>

\* audit_log and log_to_vault both completed, nobody else touched the file,
\* and the log holds the earlier entry and the watcher's entry only
C13_Witness ==
    /\ procs["audit_log"].pc = "done"
    /\ procs["log_to_vault"].pc = "done"
    /\ procs["_log_action"].pc = "idle"
    /\ procs["audit_log"].entries = procs["log_to_vault"].entries
    /\ Len(procs["audit_log"].entries) = 1
    /\ ~procs["audit_log"].overlapped /\ ~procs["log_to_vault"].overlapped
    /\ Len(fs.Logs) = 2
    /\ InLog("log_to_vault")
    /\ ~InLog("audit_log")


(***************************************************************************)
(* Approval resolution on files the external actor puts into Approved and  *)
(* Rejected himself, whether or not they ever were pending requests.       *)
(***************************************************************************)
MaxPlaced == 2

ResolutionNames == {"notes.md", "APPROVAL_task_20261104120000.md"}

ResolutionContents == {"Send the email to Client A", "Share on LinkedIn: we shipped"}

\* the external actor creates a file in Approved or in Rejected; the observer
\* watches Approved, nothing watches Rejected
Place(folder, name, content) ==
    /\ Cardinality(drops) < MaxPlaced
    /\ ~exists(fs, <<folder, name>>)
    /\ fs' = write_text(fs, <<folder, name>>, content)
    /\ events' = IF folder = "Approved" THEN Append(events, <<folder, name>>) ELSE events
    /\ drops' = drops \cup {fs'[folder][name].ino}
    /\ last' = [op |-> "place", folder |-> folder, src |-> name]
    /\ UNCHANGED <<now, orch, runs, procs, sched>>

NextResolution ==
    \/ \E folder \in {"Approved", "Rejected"}, name \in ResolutionNames,
          content \in ResolutionContents : Place(folder, name, content)
    \/ Tick
    \/ ApprovalHandler_on_created
    \/ Orchestrator_run_cycle

SpecResolution == InitVault /\ [][NextResolution]_vars

\* the folders a file may be in other than Done
OpenFolders == {"Inbox", "Needs_Action", "Pending_Approval", "Approved", "Rejected"}

\* the vault g holds the record the collaborator of the action writes for
\* the file name in vault f
Acted(f, g, name) ==
    LET action == approved_action(f, <<"Approved", name>>)
    IN  /\ action = "gmail_send" =>
              /\ exists(g, <<"Drafts", "email_draft_" \o stem(name) \o ".json">>)
              /\ read_text(g, <<"Drafts", "email_draft_" \o stem(name) \o ".json">>).source_file
                     = name
        /\ action = "linkedin_auto_post" =>
              \E n \in DOMAIN g.Posted :
                  g.Posted[n].content.content = read_text(f, <<"Approved", name>>)

C16_Original ==
    ((last.op = "on_created" /\ last.handled) \/ last.op = "run_cycle") =>
        \A n \in DOMAIN last.before.Plans :
            /\ n \in DOMAIN fs.Plans
            /\ fs.Plans[n].content = last.before.Plans[n].content

(***************************************************************************)
(* human_approval of both tiers, invoked through the registry for a task   *)
(* file in Inbox, Needs_Action or Done.                                    *)
(***************************************************************************)
\* HumanApprovalSkill.execute of the Bronze tier
BronzeHumanApprovalSkill(f, p, t) ==
    LET f1   == append_text(f, p,
                    "\n--- AWAITING HUMAN APPROVAL ---\nFlagged at: " \o strftime_minute(t)
                    \o "\nStatus: PENDING REVIEW\n")
        dest == needs_action_dest(f1, p[2], t)
    IN  IF p[1] # "Needs_Action"
        THEN [fs  |-> shutil_move(f1, p, <<"Needs_Action", dest>>),
              ret |-> [status |-> "awaiting_approval", file |-> dest]]
        ELSE [fs  |-> f1,
              ret |-> [status |-> "awaiting_approval", file |-> p[2]]]

TaskFolders == {"Inbox", "Needs_Action", "Done"}

\* one task file in one of the folders, Needs_Action holding its name or not
InitFlag ==
    /\ \E d \in TaskFolders, c \in SilverContents, taken \in BOOLEAN :
          fs = write_text(IF taken
                          THEN write_text(EmptyVault, <<"Needs_Action", "task.txt">>,
                                          "an older task")
                          ELSE EmptyVault,
                          <<d, "task.txt">>, c)
    /\ now = 0
    /\ last = [op |-> "init"]
    /\ events = << >>
    /\ orch = OrchIdle
    /\ drops = {}
    /\ runs = 0
    /\ procs = NoProcs
    /\ sched = NoScheduler

Silver_human_approval(p) ==
    /\ runs < MaxRuns
    /\ exists(fs, p)
    /\ LET r == HumanApprovalSkill(fs, p, now)
       IN  /\ fs' = r.fs
           /\ last' = [op |-> "human_approval", tier |-> "Silver", path |-> p,
                       ino |-> fs[p[1]][p[2]].ino, pre |-> fs, ret |-> r.ret]
    /\ runs' = runs + 1
    /\ UNCHANGED <<now, events, orch, drops, procs, sched>>

Bronze_human_approval(p) ==
    /\ runs < MaxRuns
    /\ exists(fs, p)
    /\ LET r == BronzeHumanApprovalSkill(fs, p, now)
       IN  /\ fs' = r.fs
           /\ last' = [op |-> "human_approval", tier |-> "Bronze", path |-> p,
                       ino |-> fs[p[1]][p[2]].ino, pre |-> fs, ret |-> r.ret]
    /\ runs' = runs + 1
    /\ UNCHANGED <<now, events, orch, drops, procs, sched>>

NextFlag ==
    \/ \E d \in TaskFolders : \E n \in DOMAIN fs[d] : Silver_human_approval(<<d, n>>)
    \/ \E d \in TaskFolders : \E n \in DOMAIN fs[d] : Bronze_human_approval(<<d, n>>)
    \/ Tick

SpecFlag == InitFlag /\ [][NextFlag]_vars

(***************************************************************************)
(* C17: after human_approval the tagged task file resides in Needs_Action. *)
(* When the call returns, the file it was invoked for is in Needs_Action   *)
(* and in no other task folder, and its content is the content it had      *)
(* before the call followed by the "AWAITING HUMAN APPROVAL" block.        *)
(***************************************************************************)
C17_Original ==
    last.op = "human_approval" =>
        /\ \A d \in TaskFolders \ {"Needs_Action"} : NamesOf(fs[d], last.ino) = {}
        /\ \E n \in NamesOf(fs.Needs_Action, last.ino) :
              LET before == read_text(last.pre, last.path)
                  after  == fs.Needs_Action[n].content
              IN  /\ StartsWith(after, before)
                  /\ StartsWith(SubSeq(after, Len(before) + 1, Len(after)),
                                "\n--- AWAITING HUMAN APPROVAL ---\n")

(***************************************************************************)
(* Silver tier, scheduler.py: AIEmployeeScheduler.run.  sched.clock is     *)
(* time.time() in seconds after the start of run; a step is the begin of   *)
(* a loop iteration, the body of the for loop for one schedule, or the     *)
(* sleep that ends the iteration.  A callback is modelled by the time it   *)
(* takes and by how it ends; calls and prev record, for each schedule, the *)
(* number of invocations and the iteration time of the latest one, and     *)
(* raised the schedules whose callback raised in the current iteration.    *)
(***************************************************************************)
MaxIters == 4

\* seconds a callback may take
Durations == {0, 2}

\* seconds until time.sleep(1) has returned: one second, or longer when the
\* process was suspended meanwhile
Elapsed == {1, 300, 1798, 1801, 86400}

\* how a callback ends
Outcomes == {"return", "Exception", "KeyboardInterrupt"}

\* an add_recurring whose job is due at once
add_recurring_due_now(schedules, name, interval_seconds, t) ==
    Append(schedules, [name |-> name, interval |-> interval_seconds,
                       next_run |-> t, calls |-> 0, prev |-> -1,
                       registered |-> t, prev_at |-> -1])

\* registered is the time of the call; prev_at is the time at which the
\* callback was last invoked
add_recurring(schedules, name, interval_seconds, t) ==
    Append(schedules, [name |-> name, interval |-> interval_seconds,
                       next_run |-> t + interval_seconds, calls |-> 0, prev |-> -1,
                       registered |-> t, prev_at |-> -1])

setup_default_schedule(schedules, t) ==
    add_recurring(
        add_recurring(
            add_recurring(schedules, "Health Check", 300, t),
            "Daily Briefing", 86400, t),
        "LinkedIn Schedule", 1800, t)

InitScheduler ==
    /\ fs = EmptyVault
    /\ now = 0
    /\ last = [op |-> "init"]
    /\ events = << >>
    /\ orch = OrchIdle
    /\ drops = {}
    /\ runs = 0
    /\ procs = NoProcs
    /\ sched = [clock |-> 0, now |-> 0, i |-> 0, iter |-> 0, running |-> TRUE,
                raised |-> {}, schedules |-> setup_default_schedule(<< >>, 0)]

\* a next_run counted from the time the callback was invoked
next_run_from_invocation(t, invoked_at, next_run, interval) == invoked_at + interval

\* a next_run counted from the previous next_run
next_run_catch_up(t, invoked_at, next_run, interval) == next_run + interval

\* s["next_run"] = now + s["interval"]
advance(t, invoked_at, next_run, interval) == t + interval

\* a handler that lets every exception out of the loop
propagates_any(outcome) == outcome # "return"

\* except Exception lets only what is no Exception out of the loop
propagates(outcome) == outcome = "KeyboardInterrupt"

\* now = time.time() at the top of the while loop
Scheduler_loop ==
    /\ sched.running
    /\ sched.i = 0
    /\ sched.iter < MaxIters
    /\ sched' = [sched EXCEPT !.now = sched.clock, !.i = 1, !.iter = @ + 1,
                              !.raised = {}]
    /\ last' = [op |-> "loop"]
    /\ UNCHANGED <<fs, now, events, orch, drops, runs, procs>>

\* the body of the for loop for schedule sched.i, whose callback, when it is
\* invoked, takes d seconds and ends with outcome
Scheduler_job(d, outcome) ==
    /\ sched.running
    /\ sched.i \in 1..Len(sched.schedules)
    /\ LET i == sched.i
           s == sched.schedules[i]
       IN  IF sched.now >= s.next_run
           THEN /\ sched' =
                      IF propagates(outcome)
                      THEN [sched EXCEPT !.clock = @ + d, !.running = FALSE,
                                         !.schedules[i].calls = @ + 1]
                      ELSE [sched EXCEPT
                               !.clock = @ + d, !.i = @ + 1,
                               !.raised = IF outcome = "return" THEN @ ELSE @ \cup {i},
                               !.schedules[i].calls = @ + 1,
                               !.schedules[i].prev = sched.now,
                               !.schedules[i].prev_at = sched.clock,
                               !.schedules[i].next_run =
                                   advance(sched.now, sched.clock, s.next_run, s.interval)]
                /\ last' = [op |-> "job", job |-> i, invoked |-> TRUE,
                            invoked_at |-> sched.clock, outcome |-> outcome,
                            before |-> sched]
           ELSE /\ d = 0
                /\ outcome = "return"
                /\ sched' = [sched EXCEPT !.i = @ + 1]
                /\ last' = [op |-> "job", job |-> i, invoked |-> FALSE, before |-> sched]
    /\ UNCHANGED <<fs, now, events, orch, drops, runs, procs>>

\* time.sleep(1) at the end of the iteration
Scheduler_sleep(e) ==
    /\ sched.running
    /\ sched.i = Len(sched.schedules) + 1
    /\ sched' = [sched EXCEPT !.clock = @ + e, !.i = 0]
    /\ last' = [op |-> "sleep", elapsed |-> e]
    /\ UNCHANGED <<fs, now, events, orch, drops, runs, procs>>

NextScheduler ==
    \/ Scheduler_loop
    \/ \E d \in Durations, outcome \in Outcomes : Scheduler_job(d, outcome)
    \/ \E e \in Elapsed : Scheduler_sleep(e)

SpecScheduler == InitScheduler /\ [][NextScheduler]_vars

(***************************************************************************)
(* C18 as stated: a callback is invoked exactly when now >= next_run, and  *)
(* after an invocation that returned or raised an Exception the job's      *)
(* next_run is the time at which its callback was invoked plus its         *)
(* interval.                                                               *)
(***************************************************************************)
C18_Original ==
    last.op = "job" =>
        LET s == last.before.schedules[last.job]
        IN  /\ last.invoked <=> last.before.now >= s.next_run
            /\ (last.invoked /\ sched.running) =>
                  sched.schedules[last.job].next_run = last.invoked_at + s.interval

(***************************************************************************)
(* C18, amended: a callback is invoked exactly when now >= next_run, for   *)
(* the now read once at the top of the iteration, and after an invocation  *)
(* that returned or raised an Exception the job's next_run is that now     *)
(* plus its interval; this is the time of the invocation plus the interval *)
(* when the callbacks invoked earlier in the iteration took no time.       *)
(***************************************************************************)
C18_NextRunFromIterationNow ==
    last.op = "job" =>
        LET s == last.before.schedules[last.job]
        IN  /\ last.invoked <=> last.before.now >= s.next_run
            /\ (last.invoked /\ sched.running) =>
                  /\ sched.schedules[last.job].next_run = last.before.now + s.interval
                  /\ last.before.clock = last.before.now =>
                        sched.schedules[last.job].next_run = last.invoked_at + s.interval

\* LinkedIn Schedule was invoked after Health Check took time in the iteration
C18_Witness ==
    /\ last.op = "job"
    /\ last.invoked
    /\ sched.running
    /\ last.before.schedules[last.job].name = "LinkedIn Schedule"
    /\ last.before.schedules[1].prev = last.before.now
    /\ last.invoked_at = last.before.now + 2
    /\ sched.schedules[last.job].next_run = last.before.now + 1800

C20_ErrorContained ==
    last.op = "job" =>
        LET s == last.before.schedules[last.job]
        IN  /\ (last.invoked /\ last.outcome \in {"return", "Exception"}) =>
                  /\ sched.running
                  /\ sched.i = last.job + 1
                  /\ sched.schedules[last.job].next_run = last.before.now + s.interval
                  /\ sched.raised = IF last.outcome = "Exception"
                                    THEN last.before.raised \cup {last.job}
                                    ELSE last.before.raised
            /\ (last.before.raised # {} /\ last.before.now >= s.next_run) => last.invoked

\* LinkedIn Schedule is invoked, and raises, after Health Check raised in
\* the same iteration
C20_Witness ==
    /\ last.op = "job"
    /\ last.invoked
    /\ last.outcome = "Exception"
    /\ last.before.schedules[last.job].name = "LinkedIn Schedule"
    /\ last.before.raised = {1}
    /\ sched.running
    /\ sched.raised = {1, 3}
    /\ sched.schedules[3].next_run = sched.now + 1800

(***************************************************************************)
(* Orchestrator.run step by step, next to the ApprovalHandler of main.py,  *)
(* which is another process on the same vault.  The steps of the           *)
(* orchestrator are: the start of a cycle (process_needs_action, then the  *)
(* listing of Approved), and for each listed file the is_file test with    *)
(* the read of its content, the domain skill, and audit_log with the move  *)
(* to Done; then process_rejected and update_dashboard.  An exception      *)
(* that no handler of orchestrator.py catches ends run.                    *)
(***************************************************************************)
OrchRunning ==
    [processed_files |-> {}, running |-> TRUE, pc |-> "sleep", listing |-> << >>,
     content |-> "", raised |-> "none"]

InitCycle ==
    /\ fs = EmptyVault
    /\ now = 0
    /\ last = [op |-> "init"]
    /\ events = << >>
    /\ orch = OrchRunning
    /\ drops = {}
    /\ runs = 0
    /\ procs = NoProcs
    /\ sched = NoScheduler

\* the skill process_approved runs for a file whose lowercased content it read
dispatch(content, name) ==
    IF Contains(content, "linkedin") \/ Contains(lower(name), "linkedin")
    THEN "linkedin_auto_post"
    ELSE IF Contains(content, "email") \/ Contains(lower(name), "email")
    THEN "gmail_send"
    ELSE "none"

\* run_cycle up to the listing of Approved
Cycle_start ==
    /\ orch.running
    /\ orch.pc = "sleep"
    /\ \E ln \in Listings(fs.Needs_Action) :
          LET r == process_needs_action(fs, orch.processed_files, ln, now)
          IN  /\ fs' = r.fs
              /\ \E la \in Listings(r.fs.Approved) :
                    orch' = [orch EXCEPT !.processed_files = r.processed_files,
                                         !.pc = "scan", !.listing = la]
    /\ last' = [op |-> "cycle_start", before |-> fs]
    /\ UNCHANGED <<now, events, drops, runs, procs, sched>>

\* f.is_file() and the read of the content of the next listed file
Cycle_read ==
    /\ orch.running
    /\ orch.pc = "scan"
    /\ orch.listing # << >>
    /\ LET p == <<"Approved", Head(orch.listing)>>
       IN  IF exists(fs, p)
           THEN /\ orch' = [orch EXCEPT !.pc = "act", !.content = lower(read_text(fs, p))]
                /\ last' = [op |-> "cycle_read", src |-> p[2], found |-> TRUE]
           ELSE /\ orch' = [orch EXCEPT !.listing = Tail(@)]
                /\ last' = [op |-> "cycle_read", src |-> p[2], found |-> FALSE]
    /\ UNCHANGED <<fs, now, events, drops, runs, procs, sched>>

\* registry.run of the domain skill; its _read_file raises for a missing file
Cycle_act ==
    /\ orch.running
    /\ orch.pc = "act"
    /\ LET p      == <<"Approved", Head(orch.listing)>>
           action == dispatch(orch.content, p[2])
       IN  /\ last' = [op |-> "cycle_act", src |-> p[2], action |-> action,
                       ino |-> IF exists(fs, p) THEN fs.Approved[p[2]].ino ELSE 0,
                       before |-> fs]
           /\ IF action = "none"
              THEN /\ fs' = fs
                   /\ orch' = [orch EXCEPT !.pc = "move"]
              ELSE IF exists(fs, p)
              THEN /\ fs' = run_approved_action(fs, p, now)
                   /\ orch' = [orch EXCEPT !.pc = "move"]
              ELSE /\ fs' = fs
                   /\ orch' = [orch EXCEPT !.running = FALSE, !.pc = "act",
                                           !.raised = "FileNotFoundError"]
    /\ UNCHANGED <<now, events, drops, runs, procs, sched>>

\* audit_log, then shutil.move to Done, which raises for a missing file
Cycle_move ==
    /\ orch.running
    /\ orch.pc = "move"
    /\ LET name == Head(orch.listing)
           p    == <<"Approved", name>>
           f2   == AuditLogSkill(fs, p, now).fs
       IN  /\ last' = [op |-> "cycle_move", src |-> name, found |-> exists(fs, p),
                       before |-> fs]
           /\ IF exists(fs, p)
              THEN /\ fs' = shutil_move(f2, p, <<"Done", approved_dest(f2, name, now)>>)
                   /\ orch' = [orch EXCEPT !.pc = "scan", !.listing = Tail(@)]
              ELSE /\ fs' = f2
                   /\ orch' = [orch EXCEPT !.running = FALSE,
                                           !.raised = "FileNotFoundError"]
    /\ UNCHANGED <<now, events, drops, runs, procs, sched>>

\* the rest of run_cycle: process_rejected, update_dashboard; then time.sleep
Cycle_end ==
    /\ orch.running
    /\ orch.pc = "scan"
    /\ orch.listing = << >>
    /\ \E lr \in Listings(fs.Rejected) :
          fs' = UpdateDashboardSkill(process_rejected(fs, lr, now), now).fs
    /\ orch' = [orch EXCEPT !.pc = "sleep"]
    /\ last' = [op |-> "cycle_end", before |-> fs]
    /\ UNCHANGED <<now, events, drops, runs, procs, sched>>

NextCycle ==
    \/ \E name \in ResolutionNames, content \in ResolutionContents :
          Cardinality(drops) < MaxTasks /\ Place("Approved", name, content)
    \/ Tick
    \/ ApprovalHandler_on_created
    \/ Cycle_start
    \/ Cycle_read
    \/ Cycle_act
    \/ Cycle_move
    \/ Cycle_end

SpecCycle == InitCycle /\ [][NextCycle]_vars

(***************************************************************************)
(* C21: no exception raised inside an orchestrator cycle terminates        *)
(* Orchestrator.run: in every reachable state the loop of run is still     *)
(* running and no exception has left it.                                   *)
(***************************************************************************)
C21_Original == orch.running /\ orch.raised = "none"

(***************************************************************************)
(* C26: each file placed in Approved triggers its domain action at most    *)
(* once and is moved to Done at most once: Posted and Drafts together hold *)
(* at most as many records, and Done at most as many files, as files were  *)
(* placed in Approved.                                                     *)
(***************************************************************************)
C26_Original ==
    /\ Count(fs.Posted) + Count(fs.Drafts) <= Cardinality(drops)
    /\ Count(fs.Done) <= Cardinality(drops)

(***************************************************************************)
(* The content reader on bytes: AgentSkill._read_file, and the same loop   *)
(* in classify_task of the Bronze main.py.  A path is a missing file, a    *)
(* file the process may not read, or a file of bytes; a text is a sequence *)
(* of code points; a decoder returns [ok, text].                           *)
(***************************************************************************)
MaxBytes == 3

\* A, NUL, 0xE9, 0x81, 0xFF, 0xFE and the bytes of the UTF-8 byte order mark
ByteAlphabet == {65, 0, 233, 129, 255, 254, 239, 187, 191}

RECURSIVE BytesUpTo(_)
BytesUpTo(n) ==
    IF n = 0 THEN {<< >>}
    ELSE LET shorter == BytesUpTo(n - 1)
         IN  shorter \cup {Append(b, x) : b \in {s \in shorter : Len(s) = n - 1},
                                          x \in ByteAlphabet}

ReaderPaths ==
    {[kind |-> "missing"], [kind |-> "unreadable"]}
        \cup {[kind |-> "file", bytes |-> b] : b \in BytesUpTo(MaxBytes)}

DecodeError == [ok |-> FALSE, text |-> << >>]

Decoded(text) == [ok |-> TRUE, text |-> text]

IsCont(b) == b >= 128 /\ b <= 191

\* bytes.decode("utf-8")
RECURSIVE decode_utf_8(_)
decode_utf_8(b) ==
    IF b = << >> THEN Decoded(<< >>)
    ELSE LET b1 == b[1]
             n  == IF b1 < 128 THEN 1
                   ELSE IF b1 >= 194 /\ b1 <= 223 THEN 2
                   ELSE IF b1 >= 224 /\ b1 <= 239 THEN 3
                   ELSE IF b1 >= 240 /\ b1 <= 244 THEN 4
                   ELSE 0
             well == /\ n > 0
                     /\ Len(b) >= n
                     /\ \A k \in 2..n : IsCont(b[k])
                     /\ b1 = 224 => b[2] >= 160
                     /\ b1 = 237 => b[2] <= 159
                     /\ b1 = 240 => b[2] >= 144
                     /\ b1 = 244 => b[2] <= 143
             cp   == CASE n = 1 -> b1
                       [] n = 2 -> (b1 - 192) * 64 + (b[2] - 128)
                       [] n = 3 -> (b1 - 224) * 4096 + (b[2] - 128) * 64 + (b[3] - 128)
                       [] OTHER -> (b1 - 240) * 262144 + (b[2] - 128) * 4096
                                       + (b[3] - 128) * 64 + (b[4] - 128)
             rest == decode_utf_8(SubSeq(b, n + 1, Len(b)))
         IN  IF ~well THEN DecodeError
             ELSE IF ~rest.ok THEN DecodeError
             ELSE Decoded(<< cp >> \o rest.text)

\* bytes.decode("utf-8-sig"): a leading byte order mark is dropped
decode_utf_8_sig(b) ==
    IF Len(b) >= 3 /\ SubSeq(b, 1, 3) = <<239, 187, 191>>
    THEN decode_utf_8(SubSeq(b, 4, Len(b)))
    ELSE decode_utf_8(b)

\* the code points of a sequence of UTF-16 code units
RECURSIVE utf_16_units(_)
utf_16_units(u) ==
    IF u = << >> THEN Decoded(<< >>)
    ELSE IF u[1] >= 55296 /\ u[1] <= 56319
    THEN IF Len(u) >= 2 /\ u[2] >= 56320 /\ u[2] <= 57343
         THEN LET rest == utf_16_units(SubSeq(u, 3, Len(u)))
              IN  IF rest.ok
                  THEN Decoded(<< 65536 + (u[1] - 55296) * 1024 + (u[2] - 56320) >>
                               \o rest.text)
                  ELSE DecodeError
         ELSE DecodeError
    ELSE IF u[1] >= 56320 /\ u[1] <= 57343 THEN DecodeError
    ELSE LET rest == utf_16_units(Tail(u))
         IN  IF rest.ok THEN Decoded(<< u[1] >> \o rest.text) ELSE DecodeError

\* bytes.decode("utf-16"): the byte order mark chooses the byte order, little
\* endian without one; an odd number of bytes is truncated data
decode_utf_16(b) ==
    LET be   == Len(b) >= 2 /\ SubSeq(b, 1, 2) = <<254, 255>>
        le   == Len(b) >= 2 /\ SubSeq(b, 1, 2) = <<255, 254>>
        body == IF be \/ le THEN SubSeq(b, 3, Len(b)) ELSE b
        unit(k) == IF be THEN body[2 * k - 1] * 256 + body[2 * k]
                   ELSE body[2 * k] * 256 + body[2 * k - 1]
    IN  IF Len(body) % 2 = 1 THEN DecodeError
        ELSE utf_16_units([k \in 1..(Len(body) \div 2) |-> unit(k)])

\* the code points of the bytes 0x80..0x9F in cp1252; 0 where undefined
Cp1252High ==
    <<8364, 0, 8218, 402, 8222, 8230, 8224, 8225, 710, 8240, 352, 8249, 338, 0, 381, 0,
      0, 8216, 8217, 8220, 8221, 8226, 8211, 8212, 732, 8482, 353, 8250, 339, 0, 382, 376>>

\* bytes.decode("cp1252")
decode_cp1252(b) ==
    IF \E k \in 1..Len(b) : b[k] >= 128 /\ b[k] <= 159 /\ Cp1252High[b[k] - 127] = 0
    THEN DecodeError
    ELSE Decoded([k \in 1..Len(b) |->
                     IF b[k] >= 128 /\ b[k] <= 159 THEN Cp1252High[b[k] - 127] ELSE b[k]])

\* Path.read_text(encoding): open raises for a path that is missing or may
\* not be read, decode raises UnicodeDecodeError
read_text_encoding(path, encoding) ==
    IF path.kind = "missing" THEN [raised |-> "FileNotFoundError", text |-> << >>]
    ELSE IF path.kind = "unreadable" THEN [raised |-> "PermissionError", text |-> << >>]
    ELSE LET d == CASE encoding = "utf-8-sig" -> decode_utf_8_sig(path.bytes)
                    [] encoding = "utf-16"    -> decode_utf_16(path.bytes)
                    [] encoding = "utf-8"     -> decode_utf_8(path.bytes)
                    [] OTHER                  -> decode_cp1252(path.bytes)
         IN  IF d.ok THEN [raised |-> "none", text |-> d.text]
             ELSE [raised |-> "UnicodeDecodeError", text |-> << >>]

Encodings == <<"utf-8-sig", "utf-16", "utf-8", "cp1252">>

\* the loop of _read_file from encoding k on: except (UnicodeDecodeError,
\* ValueError) goes on, any other exception leaves the loop
RECURSIVE read_file_from(_, _)
read_file_from(path, k) ==
    IF k > Len(Encodings) THEN [raised |-> "none", text |-> << >>, encoding |-> "none"]
    ELSE LET r == read_text_encoding(path, Encodings[k])
         IN  IF r.raised = "none"
             THEN [raised |-> "none", text |-> r.text, encoding |-> Encodings[k]]
             ELSE IF r.raised \in {"UnicodeDecodeError", "ValueError"}
             THEN read_file_from(path, k + 1)
             ELSE [raised |-> r.raised, text |-> << >>, encoding |-> "none"]

AgentSkill_read_file(path) == read_file_from(path, 1)

\* "urgent" and "soon" as code points
UrgentText == <<117, 114, 103, 101, 110, 116>>

SoonText == <<115, 111, 111, 110>>

\* str.lower of the code points A..Z
lower_text(text) ==
    [k \in 1..Len(text) |-> IF text[k] >= 65 /\ text[k] <= 90 THEN text[k] + 32 ELSE text[k]]

ContainsText(text, w) ==
    \E k \in 0..(Len(text) - Len(w)) : SubSeq(text, k + 1, k + Len(w)) = w

\* classify_task of the Bronze main.py, up to the level it decides
classify_task_level(path) ==
    LET r == AgentSkill_read_file(path)
        c == lower_text(r.text)
    IN  [raised  |-> r.raised,
         urgency |-> IF r.raised # "none" THEN "none"
                     ELSE IF ContainsText(c, UrgentText) THEN "High"
                     ELSE IF ContainsText(c, SoonText) THEN "Medium"
                     ELSE "Low"]

InitReader ==
    /\ fs = EmptyVault
    /\ now = 0
    /\ \E path \in ReaderPaths : last = [op |-> "path", path |-> path]
    /\ events = << >>
    /\ orch = OrchIdle
    /\ drops = {}
    /\ runs = 0
    /\ procs = NoProcs
    /\ sched = NoScheduler

Reader_read_file ==
    /\ last.op = "path"
    /\ last' = [op |-> "_read_file", path |-> last.path,
                ret |-> AgentSkill_read_file(last.path)]
    /\ UNCHANGED <<fs, now, events, orch, drops, runs, procs, sched>>

Reader_classify_task ==
    /\ last.op = "path"
    /\ last' = [op |-> "classify_task", path |-> last.path,
                ret |-> classify_task_level(last.path)]
    /\ UNCHANGED <<fs, now, events, orch, drops, runs, procs, sched>>

NextReader ==
    \/ Reader_read_file
    \/ Reader_classify_task

SpecReader == InitReader /\ [][NextReader]_vars

(***************************************************************************)
(* C22: the content reader never raises.  It returns the text of the first *)
(* of utf-8-sig, utf-16, utf-8, cp1252 that decodes the whole file, and    *)
(* the empty text when none does or when the file is missing or may not be *)
(* read; classification of such a file yields Low.                         *)
(***************************************************************************)
C22_Original ==
    /\ last.op = "_read_file" =>
          /\ last.ret.raised = "none"
          /\ last.path.kind # "file" => last.ret.text = << >>
          /\ last.path.kind = "file" =>
                \/ \E k \in 1..Len(Encodings) :
                      /\ read_text_encoding(last.path, Encodings[k]).raised = "none"
                      /\ \A j \in 1..(k - 1) :
                            read_text_encoding(last.path, Encodings[j]).raised # "none"
                      /\ last.ret.text = read_text_encoding(last.path, Encodings[k]).text
                \/ /\ \A k \in 1..Len(Encodings) :
                         read_text_encoding(last.path, Encodings[k]).raised # "none"
                   /\ last.ret.text = << >>
    /\ last.op = "classify_task" =>
          /\ last.ret.raised = "none"
          /\ last.path.kind # "file" => last.ret.urgency = "Low"

(***************************************************************************)
(* C23: the system only adds files to Pending_Approval.  Every file that   *)
(* was in Pending_Approval before InboxHandler handled a file, or before   *)
(* an orchestrator cycle, is in Pending_Approval afterwards, the same file *)
(* with the same content.                                                  *)
(***************************************************************************)
C23_Original ==
    ((last.op = "on_created" /\ last.handled) \/ last.op = "run_cycle") =>
        \A n \in DOMAIN last.before.Pending_Approval :
            /\ n \in DOMAIN fs.Pending_Approval
            /\ fs.Pending_Approval[n].ino = last.before.Pending_Approval[n].ino
            /\ fs.Pending_Approval[n].content = last.before.Pending_Approval[n].content

\* the number of lines of a content that start with "Urgency:"
UrgencyLines(content) ==
    LET lines == splitlines(content)
    IN  Cardinality({i \in 1..Len(lines) : StartsWith(lines[i], "Urgency:")})

(***************************************************************************)
(* C28: a task file is classified at most once.  In every reachable state  *)
(* every file in Inbox, Needs_Action or Done has at most one line that     *)
(* starts with "Urgency:".                                                 *)
(***************************************************************************)
C28_Original ==
    \A d \in TaskFolders : \A n \in DOMAIN fs[d] : UrgencyLines(fs[d][n].content) <= 1

(***************************************************************************)
(* Routing of task files by the Silver InboxHandler and by the             *)
(* orchestrator: files dropped into Inbox, and files that a watcher or the *)
(* external actor creates in Needs_Action, where only the orchestrator     *)
(* looks.                                                                  *)
(***************************************************************************)
RoutingContents ==
    {"Pay the invoice of Client A", "Please delete the old drafts",
     "Send the report to the team"}

\* a file appears in Needs_Action
PlaceTask(name, content) ==
    /\ Cardinality(drops) < MaxPlaced
    /\ ~exists(fs, <<"Needs_Action", name>>)
    /\ fs' = write_text(fs, <<"Needs_Action", name>>, content)
    /\ drops' = drops \cup {fs'.Needs_Action[name].ino}
    /\ last' = [op |-> "place", folder |-> "Needs_Action", src |-> name]
    /\ UNCHANGED <<now, events, orch, runs, procs, sched>>

NextRouting ==
    \/ \E name \in SilverNames, content \in RoutingContents :
          Cardinality(drops) < MaxPlaced /\ Drop(name, content)
    \/ \E name \in SilverNames, content \in RoutingContents : PlaceTask(name, content)
    \/ Tick
    \/ Silver_on_created
    \/ Orchestrator_run_cycle

SpecRouting == InitVault /\ [][NextRouting]_vars

(***************************************************************************)
(* C24: plan flag and routing agree.  When InboxHandler returns for a file *)
(* whose plan it created with approval required, it routed the file to     *)
(* human_approval; and after an orchestrator cycle, for every file the     *)
(* cycle processed whose plan of that cycle says "approval_required:       *)
(* True", the Approval Request of that cycle is in Pending_Approval.       *)
(***************************************************************************)
C24_Original ==
    /\ (last.op = "on_created" /\ last.handled /\ last.plan.needs_approval) =>
          last.route = "human_approval"
    /\ last.op = "run_cycle" =>
          \A n \in last.routed :
              LET plan == "PLAN_" \o stem(n) \o "_" \o strftime_compact(now) \o ".md"
              IN  (/\ plan \in DOMAIN fs.Plans
                   /\ Contains(fs.Plans[plan].content, "approval_required: True")) =>
                      approval_file_name(n, now) \in DOMAIN fs.Pending_Approval

(***************************************************************************)
(* C27: every file in Needs_Action is processed by the running             *)
(* orchestrator.  When an orchestrator cycle has ended, every file that is *)
(* left in Needs_Action has been classified: its content has a line that   *)
(* starts with "Urgency:".                                                 *)
(***************************************************************************)
C27_Original ==
    last.op = "run_cycle" =>
        \A n \in DOMAIN fs.Needs_Action : UrgencyLines(fs.Needs_Action[n].content) >= 1

(***************************************************************************)
(* The approval workflow for task files whose content names more than one  *)
(* kind of action.                                                         *)
(***************************************************************************)
DispatchContents ==
    {"Send email about our LinkedIn post", "Pay the invoice of Client A",
     "Send email: invoice payment to Client A"}

NextDispatch ==
    \/ \E name \in SilverNames, content \in DispatchContents :
          Cardinality(drops) < MaxTasks /\ Drop(name, content)
    \/ \E name \in DOMAIN fs.Pending_Approval : Approve(name)
    \/ Tick
    \/ Silver_on_created
    \/ ApprovalHandler_on_created
    \/ Orchestrator_run_cycle

SpecDispatch == InitVault /\ [][NextDispatch]_vars

(***************************************************************************)
(* C25: the domain action run on approval matches the action recorded in   *)
(* the request.  When ApprovalHandler has handled a request, or            *)
(* process_approved has returned, linkedin_auto_post was run (Posted       *)
(* changed) only for a request with "action: linkedin_post" and gmail_send *)
(* (Drafts changed) only for a request with "action: email_send".          *)
(***************************************************************************)
C25_Original ==
    /\ (last.op = "approved_created" /\ last.handled) =>
          LET request == last.before.Approved[last.src].content
          IN  /\ fs.Posted # last.before.Posted =>
                    Contains(request, "\naction: linkedin_post\n")
              /\ fs.Drafts # last.before.Drafts =>
                    Contains(request, "\naction: email_send\n")
    /\ last.op = "run_cycle" =>
          /\ last.approved.Posted # last.needs.Posted =>
                \E n \in DOMAIN last.needs.Approved :
                    Contains(last.needs.Approved[n].content, "\naction: linkedin_post\n")
          /\ last.approved.Drafts # last.needs.Drafts =>
                \E n \in DOMAIN last.needs.Approved :
                    Contains(last.needs.Approved[n].content, "\naction: email_send\n")

(***************************************************************************)
(* The Silver InboxHandler alone: files dropped into Inbox, handled one    *)
(* event at a time.                                                        *)
(***************************************************************************)
NextHandler ==
    \/ \E name \in SilverNames, content \in SilverContents : Drop(name, content)
    \/ Tick
    \/ Silver_on_created

SpecHandler == InitVault /\ [][NextHandler]_vars

(***************************************************************************)
(* C29: the chain of InboxHandler for one file runs classify, plan_creator,*)
(* then exactly one of human_approval and move_to_done, then audit_log,    *)
(* then update_dashboard.  When the handler returns for a file it found:   *)
(* at the call of the routed skill the file was in Needs_Action with one   *)
(* Urgency line more than it had, its plan was in Plans, and               *)
(* Pending_Approval and Done were as before the handler; if routed to      *)
(* human_approval, the request holds the classified content, Done is       *)
(* unchanged and the audit entry shows the tagged file; if routed to       *)
(* move_to_done, the file is in Done, Pending_Approval is unchanged and    *)
(* the audit entry is the one for a path that is gone; there is exactly    *)
(* one audit entry more, and the dashboard counts are those of the final   *)
(* folders.                                                                *)
(***************************************************************************)
C29_ChainOrder ==
    (last.op = "on_created" /\ last.handled) =>
        LET name  == last.file[2]
            entry == fs.Logs[Len(fs.Logs)]
        IN  /\ exists(last.pre, last.file)
            /\ UrgencyLines(read_text(last.pre, last.file))
                   = UrgencyLines(read_text(last.before, <<"Inbox", last.src>>)) + 1
            /\ last.plan.plan_file \in DOMAIN last.pre.Plans
            /\ last.pre.Pending_Approval = last.before.Pending_Approval
            /\ last.pre.Done = last.before.Done
            /\ last.route \in {"human_approval", "move_to_done"}
            /\ last.route = "human_approval" =>
                  /\ approval_file_name(name, now) \in DOMAIN fs.Pending_Approval
                  /\ Contains(fs.Pending_Approval[approval_file_name(name, now)].content,
                              "\nUrgency: ")
                  /\ fs.Done = last.pre.Done
                  /\ NamesOf(fs.Needs_Action, last.ino) = {name}
                  /\ entry.target = name
                  /\ Contains(entry.details, "--- AWAITING HUMAN APPROVAL ---")
            /\ last.route = "move_to_done" =>
                  /\ NamesOf(fs.Done, last.ino) # {}
                  /\ NamesOf(fs.Needs_Action, last.ino) = {}
                  /\ fs.Pending_Approval = last.pre.Pending_Approval
                  /\ entry.target = "system"
                  /\ entry.action_type = "unknown"
            /\ Len(fs.Logs) = Len(last.before.Logs) + 1
            /\ fs.Dashboard.done = Count(fs.Done)
            /\ fs.Dashboard.pending = Count(fs.Pending_Approval)
            /\ fs.Dashboard.needs_action = Count(fs.Needs_Action)

\* a file was routed to approval after an earlier one was auto-completed
C29_Witness ==
    /\ last.op = "on_created"
    /\ last.handled
    /\ last.route = "human_approval"
    /\ Count(last.before.Done) = 1
    /\ Count(fs.Done) = 1
    /\ Count(fs.Pending_Approval) = 1
    /\ Len(fs.Logs) = 2
    /\ fs.Logs[1].target = "system"
    /\ fs.Logs[2].target = last.file[2]

(***************************************************************************)
(* The approved branch for files whose content or name mentions LinkedIn,  *)
(* email, both or neither.                                                 *)
(***************************************************************************)
SniffNames == {"notes.md", "LinkedIn_plan.md"}

SniffContents ==
    {"Email the team about our LinkedIn launch", "Send the email to Client A",
     "lunch at noon"}

NextSniff ==
    \/ \E name \in SniffNames, content \in SniffContents :
          Cardinality(drops) < MaxTasks /\ Place("Approved", name, content)
    \/ Tick
    \/ ApprovalHandler_on_created
    \/ Orchestrator_run_cycle

SpecSniff == InitVault /\ [][NextSniff]_vars

\* the names of Approved in vault f that call for posting, and for an email
PostingNames(f) ==
    {n \in DOMAIN f.Approved :
        Contains(lower(f.Approved[n].content), "linkedin") \/ Contains(lower(n), "linkedin")}

EmailNames(f) ==
    {n \in DOMAIN f.Approved \ PostingNames(f) :
        Contains(lower(f.Approved[n].content), "email") \/ Contains(lower(n), "email")}

\* the audit log of vault g holds, after those of vault f, an entry written
\* for the file name while it was in Approved
AuditedInPlace(f, g, name) ==
    \E k \in (Len(f.Logs) + 1)..Len(g.Logs) :
        /\ g.Logs[k].target = name
        /\ g.Logs[k].details = Prefix(f.Approved[name].content, DetailsLen)
        /\ g.Logs[k].action_type # "unknown"

(***************************************************************************)
(* C30: approved-branch dispatch.  For the files processed from Approved,  *)
(* by ApprovalHandler or by process_approved, the posting collaborator     *)
(* writes to Posted exactly when content or name of a file contains        *)
(* "linkedin", the email collaborator writes to Drafts exactly when a file *)
(* without "linkedin" contains "email", nothing else is invoked, one audit *)
(* entry per file is written, for the file still at its path in Approved,  *)
(* and the files have left Approved.                                       *)
(***************************************************************************)
C30_Dispatch ==
    /\ (last.op = "approved_created" /\ last.handled) =>
          LET f == last.before
          IN  /\ (last.src \in PostingNames(f)) <=> (fs.Posted # f.Posted)
              /\ (last.src \in EmailNames(f)) <=> (fs.Drafts # f.Drafts)
              /\ Len(fs.Logs) = Len(f.Logs) + 1
              /\ AuditedInPlace(f, fs, last.src)
              /\ NamesOf(fs.Approved, last.ino) = {}
              /\ NamesOf(fs.Done, last.ino) # {}
    /\ last.op = "run_cycle" =>
          LET f == last.needs
              g == last.approved
          IN  /\ (PostingNames(f) # {}) <=> (g.Posted # f.Posted)
              /\ (EmailNames(f) # {}) <=> (g.Drafts # f.Drafts)
              /\ Len(g.Logs) = Len(f.Logs) + Count(f.Approved)
              /\ \A n \in DOMAIN f.Approved : AuditedInPlace(f, g, n)
              /\ Count(g.Approved) = 0

\* a file that mentions email and LinkedIn was posted, and no draft written
C30_Witness ==
    /\ last.op = "approved_created"
    /\ last.handled
    /\ last.src = "notes.md"
    /\ Contains(lower(read_text(last.before, <<"Approved", last.src>>)), "email")
    /\ Contains(lower(read_text(last.before, <<"Approved", last.src>>)), "linkedin")
    /\ Count(fs.Posted) = 1
    /\ Count(fs.Drafts) = 0
    /\ exists(fs, <<"Done", "notes.md">>)
(***************************************************************************)
(* C31: every audit entry the Silver InboxHandler writes for a file it     *)
(* processed names that task file as its target, when the task was routed  *)
(* to approval and when it was auto-completed by move_to_done; the target  *)
(* "system" with action_type "unknown" is not recorded for a processed     *)
(* task file.                                                              *)
(***************************************************************************)
C31_Original ==
    (last.op = "on_created" /\ last.handled) =>
        LET entry == fs.Logs[Len(fs.Logs)]
        IN  /\ entry.target = last.file[2]
            /\ entry.action_type # "unknown"

(***************************************************************************)
(* C32 as stated: no job is invoked before its interval has elapsed since  *)
(* it was registered with add_recurring, and two consecutive invocations   *)
(* of the same job are at least one interval apart.                        *)
(***************************************************************************)
C32_Original ==
    (last.op = "job" /\ last.invoked) =>
        LET s == last.before.schedules[last.job]
        IN  /\ last.invoked_at >= s.registered + s.interval
            /\ s.prev_at >= 0 => last.invoked_at - s.prev_at >= s.interval

(***************************************************************************)
(* C32, amended: no job is invoked before its interval has elapsed since   *)
(* it was registered, and two consecutive invocations of the same job are  *)
(* in iterations whose readings of now are at least one interval apart;    *)
(* the second invocation is at least one interval after the reading of now *)
(* of the first one's iteration, which the first invocation itself may     *)
(* follow by the time the callbacks invoked before it took.                *)
(***************************************************************************)
C32_NeverEarly ==
    (last.op = "job" /\ last.invoked) =>
        LET s == last.before.schedules[last.job]
        IN  /\ last.invoked_at >= s.registered + s.interval
            /\ s.prev >= 0 =>
                  /\ last.before.now - s.prev >= s.interval
                  /\ last.invoked_at >= s.prev + s.interval
                  /\ s.prev_at >= s.prev

\* LinkedIn Schedule is invoked a second time, less than its interval after
\* its first invocation, which followed a Health Check that took two seconds
C32_Witness ==
    /\ last.op = "job"
    /\ last.invoked
    /\ last.job = 3
    /\ last.before.schedules[3].prev_at > last.before.schedules[3].prev
    /\ last.invoked_at - last.before.schedules[3].prev_at
           < last.before.schedules[3].interval

(***************************************************************************)
(* SpecTable: task files whose own text may hold a line starting with      *)
(* "Urgency:", dropped into the Inbox of a vault that one tier's watcher   *)
(* serves; the tier is the one whose dashboard the vault holds.            *)
(***************************************************************************)
TableNames == {"task.txt", "memo.md"}

TableContents ==
    {"Urgency: High\nplease file this", "call the client soon", "just a note"}

NextTable ==
    \/ \E name \in TableNames, content \in TableContents : Drop(name, content)
    \/ Tick
    \/ fs.Dashboard.tier # "Bronze" /\ Silver_on_created
    \/ fs.Dashboard.tier # "Silver" /\ Bronze_on_created

SpecTable == InitVault /\ [][NextTable]_vars

\* the value of the last line of lines[1..i] that starts with "Urgency:"
RECURSIVE trailing_urgency_line(_, _)
trailing_urgency_line(lines, i) ==
    IF i = 0 THEN "Low"
    ELSE IF StartsWith(lines[i], "Urgency:")
         THEN strip(SubSeq(lines[i], Len("Urgency:") + 1, Len(lines[i])))
         ELSE trailing_urgency_line(lines, i - 1)

TrailingUrgency(content) ==
    trailing_urgency_line(splitlines(content), Len(splitlines(content)))

(***************************************************************************)
(* C33: the urgency shown for a Done file in the dashboard table is the    *)
(* value of that file's trailing "Urgency:" line, the level appended by    *)
(* classification, and "Low" when the file has no such line, also when the *)
(* original task content holds a line starting with "Urgency:".            *)
(***************************************************************************)
C33_Original ==
    (last.op = "on_created" /\ last.handled) =>
        \A i \in 1..Len(fs.Dashboard.rows) :
            LET row == fs.Dashboard.rows[i]
            IN  row[1] \in DOMAIN fs.Done =>
                    row[2] = TrailingUrgency(fs.Done[row[1]].content)

\* the type of the first of the keywords, in the order stated, that the
\* lower-cased name contains
AuditKeywords == <<"email", "linkedin", "approval", "plan">>

RECURSIVE TypeByName(_, _)
TypeByName(fname, i) ==
    IF i > Len(AuditKeywords) THEN "file_action"
    ELSE IF Contains(lower(fname), AuditKeywords[i]) THEN AuditKeywords[i] \o "_action"
         ELSE TypeByName(fname, i + 1)

(***************************************************************************)
(* C34 as stated: the audit action_type is a function of the target's file *)
(* name only: email_action, linkedin_action, approval_action, plan_action  *)
(* for the first of these words the lower-cased name contains, else        *)
(* file_action; it is "unknown" when no file is supplied.                  *)
(***************************************************************************)
C34_Original ==
    last.op = "audit_log" =>
        /\ last.ret.action_type =
              IF last.path = NoPath THEN "unknown" ELSE TypeByName(last.path[2], 1)
        /\ fs.Logs[Len(fs.Logs)].action_type = last.ret.action_type

(***************************************************************************)
(* C34, amended: for a target file that exists the audit action_type is a  *)
(* function of its name only, in the stated order; it is "unknown" when no *)
(* file is supplied and also when the supplied path names no existing      *)
(* file, whatever its name.                                                *)
(***************************************************************************)
C34_ActionTypeByName ==
    last.op = "audit_log" =>
        /\ last.ret.action_type =
              IF last.path = NoPath \/ ~exists(last.pre, last.path)
              THEN "unknown"
              ELSE TypeByName(last.path[2], 1)
        /\ fs.Logs[Len(fs.Logs)].action_type = last.ret.action_type

\* an existing file whose name holds all four words was audited after a path
\* that names no file
C34_Witness ==
    /\ last.op = "audit_log"
    /\ last.path = <<"Needs_Action", "LinkedIn_Email_approval_plan.md">>
    /\ last.ret.action_type = "email_action"
    /\ Len(fs.Logs) = 2
    /\ fs.Logs[1].target = "gone.txt"
    /\ fs.Logs[1].action_type = "unknown"

(***************************************************************************)
(* SpecRecovery: audit_log on a vault whose per-day log file holds a text  *)
(* that the skill did not write: an empty or truncated file, other text,   *)
(* or JSON of any type.                                                    *)
(***************************************************************************)
LogFileTexts ==
    {"", "[", "not json", "[\n  {\n    \"target\": \"system\"\n  },",
     "[]", "[1, 2]", "{}", "{\"entries\": []}", "null"}

RecoveryTargets == {<<"Needs_Action", "task.txt">>, NoPath}

InitRecovery ==
    /\ \E text \in LogFileTexts : fs = [AuditVault EXCEPT !.LogText = <<text>>]
    /\ now = 0
    /\ last = [op |-> "init"]
    /\ events = << >>
    /\ orch = OrchIdle
    /\ drops = {}
    /\ runs = 0
    /\ procs = NoProcs
    /\ sched = NoScheduler

NextRecovery ==
    \/ \E p \in RecoveryTargets : Registry_audit_log(p)
    \/ Tick

SpecRecovery == InitRecovery /\ [][NextRecovery]_vars

\* the text is no well-formed JSON array
NoJsonArray(text) == json_loads(text).error \/ json_loads(text).type # "list"

(***************************************************************************)
(* C35: if the per-day log file exists but does not hold a well-formed     *)
(* JSON array, audit_log does not fail; it treats the file as an empty     *)
(* collection, and afterwards the file holds a JSON array with exactly the *)
(* one new entry.                                                          *)
(***************************************************************************)
C35_Original ==
    (/\ last.op = "audit_log"
     /\ last.pre.LogText # << >>
     /\ NoJsonArray(last.pre.LogText[1])) =>
        /\ last.ret.raised = "none"
        /\ fs.LogText = << >>
        /\ fs.Logs = << audit_entry(last.pre, last.path, now) >>

(***************************************************************************)
(* SpecIdempotent: update_dashboard of the Silver tier run through the     *)
(* registry, any number of times in a row and a minute later, between the  *)
(* drops and the runs of the InboxHandler that change the folders.         *)
(***************************************************************************)
\* a minute passes and nothing runs
Wait ==
    /\ now < 60
    /\ now' = now + 60
    /\ UNCHANGED <<fs, last, events, orch, drops, runs, procs, sched>>

NextIdempotent ==
    \/ \E name \in SilverNames, content \in SilverContents : Drop(name, content)
    \/ Silver_on_created
    \/ Registry_update_dashboard
    \/ Wait

SpecIdempotent == InitVault /\ [][NextIdempotent]_vars

\* a dashboard document without its "Last Updated" value
Undated(doc) == [doc EXCEPT !.last_updated = ""]

(***************************************************************************)
(* C36: two consecutive update_dashboard runs with no change to the        *)
(* contents of Inbox, Needs_Action, Done, Plans, Pending_Approval,         *)
(* Approved and Rejected in between write identical dashboard documents    *)
(* except for the "Last Updated" value, and a run does not change any of   *)
(* the counted folders.                                                    *)
(***************************************************************************)
C36_Idempotent ==
    last.op = "update_dashboard" =>
        /\ \A d \in Folders : fs[d] = last.pre[d]
        /\ last.after = "update_dashboard" =>
              Undated(fs.Dashboard) = Undated(last.pre.Dashboard)

\* the second of two runs in a row, a minute after the first, on a vault with
\* a completed task and a pending approval
C36_Witness ==
    /\ last.op = "update_dashboard"
    /\ last.after = "update_dashboard"
    /\ last.pre.Dashboard.last_updated = "2026-11-04 12:00"
    /\ fs.Dashboard.last_updated = "2026-11-04 12:01"
    /\ Count(fs.Done) = 1
    /\ Count(fs.Pending_Approval) = 1
    /\ Len(fs.Dashboard.rows) = 1

(***************************************************************************)
(* CEOBriefingSkill.execute, and the scheduler's daily_briefing callback   *)
(* that runs it.                                                           *)
(***************************************************************************)
\* the number of completed tasks a briefing lists
BriefingCap == 10

\* "%A" of the days of November 2026 the clock reaches; the 4th is a Wednesday
WeekdayNames ==
    <<"Sunday", "Monday", "Tuesday", "Wednesday", "Thursday", "Friday", "Saturday">>

strftime_weekday(t) == WeekdayNames[((DayOf(t) - 1) % 7) + 1]

\* "%A, %B %d, %Y"
strftime_long(t) == strftime_weekday(t) \o ", November " \o TwoDigits(DayOf(t)) \o ", 2026"

\* the list of the BriefingCap most recently modified Done files
RECURSIVE completed_lines(_)
completed_lines(names) ==
    IF names = << >> THEN ""
    ELSE "- [x] " \o Head(names) \o "\n" \o completed_lines(Tail(names))

completed_md(done) ==
    IF DOMAIN done = {} THEN "- No completed tasks this period\n"
    ELSE completed_lines(Prefix(Reverse(sorted_by_mtime(done)), BriefingCap))

\* the briefing, from the counts of Done, Needs_Action, Pending_Approval,
\* Plans and Inbox
briefing_text(t, done_n, needs_n, pending_n, plans_n, inbox_n, completed) ==
    "---\ngenerated: " \o isoformat(t) \o "\nperiod: " \o strftime_date(t)
        \o "\n---\n\n# CEO Briefing - " \o strftime_long(t)
        \o "\n\n## Executive Summary\nAI Employee vault status report. "
        \o ToString(done_n) \o " tasks completed, "
        \o ToString(needs_n) \o " pending action, "
        \o ToString(pending_n) \o " awaiting approval."
        \o "\n\n## Activity Summary\n| Metric | Value |\n|--------|-------|"
        \o "\n| Tasks Completed | " \o ToString(done_n) \o " |"
        \o "\n| Pending Action | " \o ToString(needs_n) \o " |"
        \o "\n| Awaiting Approval | " \o ToString(pending_n) \o " |"
        \o "\n| Active Plans | " \o ToString(plans_n) \o " |"
        \o "\n| Inbox Items | " \o ToString(inbox_n) \o " |"
        \o "\n\n## Completed Tasks\n" \o completed
        \o "\n## Bottlenecks\n"
        \o (IF pending_n > 0
            THEN "- " \o ToString(pending_n) \o " items awaiting human approval"
            ELSE "- No bottlenecks detected")
        \o "\n"
        \o (IF needs_n > 3
            THEN "- " \o ToString(needs_n) \o " items pending in Needs_Action"
            ELSE "")
        \o "\n\n## Proactive Suggestions"
        \o "\n- Review pending approval items to unblock workflow"
        \o "\n- Check if any Needs_Action items are stale\n"
        \o (IF needs_n > 5
            THEN "- High volume in Needs_Action - consider auto-approve rules for low-risk items"
            ELSE "")
        \o "\n\n---\n*Generated by AI Employee v0.2 (Silver Tier)*\n"

\* a briefing file named by the second of its generation
briefing_file_by_time(t) == strftime_compact(t) \o "_Briefing.md"

\* the name of the briefing file
briefing_file(t) == strftime_date(t) \o "_Briefing.md"

CEOBriefingSkill(f, t) ==
    [fs  |-> write_text(f, <<"Briefings", briefing_file(t)>>,
                        briefing_text(t, Count(f.Done), Count(f.Needs_Action),
                                      Count(f.Pending_Approval), Count(f.Plans),
                                      Count(f.Inbox), completed_md(f.Done))),
     ret |-> [briefing_file |-> briefing_file(t), done_count |-> Count(f.Done),
              pending_count |-> Count(f.Pending_Approval)]]

(***************************************************************************)
(* SpecBriefing: the daily_briefing callback run at any time of two        *)
(* calendar days, the Inbox filling in between.  sched.briefed records the *)
(* dates on which the skill ran.                                           *)
(***************************************************************************)
MaxBriefings == 3

\* seconds to the next run: half a day, a day
BriefingGaps == {43200, 86400}

\* the clock stops two days after its start
Horizon == 2 * 86400

InitBriefing ==
    /\ fs = EmptyVault
    /\ now = 0
    /\ last = [op |-> "init"]
    /\ events = << >>
    /\ orch = OrchIdle
    /\ drops = {}
    /\ runs = 0
    /\ procs = NoProcs
    /\ sched = [clock |-> 0, schedules |-> << >>, briefed |-> {}]

Elapse(e) ==
    /\ now + e <= Horizon
    /\ now' = now + e
    /\ last' = [op |-> "elapse"]
    /\ UNCHANGED <<fs, events, orch, drops, runs, procs, sched>>

\* AIEmployeeScheduler.daily_briefing
Scheduler_daily_briefing ==
    /\ runs < MaxBriefings
    /\ LET r == CEOBriefingSkill(fs, now)
       IN  /\ fs' = UpdateDashboardSkill(r.fs, now).fs
           /\ last' = [op |-> "daily_briefing", pre |-> fs, ret |-> r.ret]
    /\ runs' = runs + 1
    /\ sched' = [sched EXCEPT !.briefed = @ \cup {strftime_date(now)}]
    /\ UNCHANGED <<now, events, orch, drops, procs>>

NextBriefing ==
    \/ \E name \in TaskNames, content \in TaskContents : Drop(name, content)
    \/ Tick
    \/ \E e \in BriefingGaps : Elapse(e)
    \/ Scheduler_daily_briefing

SpecBriefing == InitBriefing /\ [][NextBriefing]_vars

(***************************************************************************)
(* C37: after any sequence of ceo_briefing runs the Briefings folder holds *)
(* exactly one briefing file for each distinct calendar date on which the  *)
(* skill ran, and a run on a date that already has a file replaces that    *)
(* file with the newly generated content.                                  *)
(***************************************************************************)
C37_OnePerDay ==
    /\ DOMAIN fs.Briefings = {d \o "_Briefing.md" : d \in sched.briefed}
    /\ Cardinality(DOMAIN fs.Briefings) = Cardinality(sched.briefed)
    /\ last.op = "daily_briefing" =>
          LET name == strftime_date(now) \o "_Briefing.md"
              text == fs.Briefings[name].content
          IN  /\ last.ret.briefing_file = name
              /\ StartsWith(text, "---\ngenerated: " \o isoformat(now) \o "\n")
              /\ Contains(text, "\n| Inbox Items | " \o ToString(Count(fs.Inbox)) \o " |\n")
              /\ \A n \in DOMAIN last.pre.Briefings \ {name} :
                    fs.Briefings[n] = last.pre.Briefings[n]
              /\ name \in DOMAIN last.pre.Briefings =>
                    fs.Briefings[name].ino = last.pre.Briefings[name].ino

\* the third run, the second of 2026-11-05, replaced that day's briefing by
\* one that counts a file dropped since; the briefing of 2026-11-04 is kept
C37_Witness ==
    /\ last.op = "daily_briefing"
    /\ runs = 3
    /\ sched.briefed = {"2026-11-04", "2026-11-05"}
    /\ strftime_date(now) = "2026-11-05"
    /\ "2026-11-05_Briefing.md" \in DOMAIN last.pre.Briefings
    /\ fs.Briefings["2026-11-05_Briefing.md"].content
          # last.pre.Briefings["2026-11-05_Briefing.md"].content
    /\ Contains(fs.Briefings["2026-11-05_Briefing.md"].content, "| Inbox Items | 1 |")
    /\ Contains(last.pre.Briefings["2026-11-05_Briefing.md"].content, "| Inbox Items | 0 |")

(***************************************************************************)
(* SpecStable: the intake of SpecIntake for a task file whose name holds a *)
(* word that classification looks for; the orchestrator classifies again   *)
(* what the InboxHandler classified and annotated.                         *)
(***************************************************************************)
StableNames == {"urgent_invoice.txt"}

NextStable ==
    \/ \E name \in StableNames, content \in SilverContents : Drop(name, content)
    \/ Tick
    \/ Silver_on_created
    \/ Orchestrator_run_cycle

SpecStable == InitVault /\ [][NextStable]_vars

\* the levels of the lines of a content that start with "Urgency:"
UrgencyLevels(content) ==
    LET lines == splitlines(content)
    IN  {strip(SubSeq(lines[i], Len("Urgency:") + 1, Len(lines[i]))) :
            i \in {k \in 1..Len(lines) : StartsWith(lines[k], "Urgency:")}}

(***************************************************************************)
(* C38: running classify again on a file the pipeline has annotated (with  *)
(* an appended "Urgency:" line, an action plan or an approval block)       *)
(* returns the same urgency level as the first classification: the levels  *)
(* that the classifications appended to a task file are all the same.      *)
(***************************************************************************)
C38_Original ==
    \A d \in TaskFolders : \A n \in DOMAIN fs[d] :
        Cardinality(UrgencyLevels(fs[d][n].content)) <= 1

=============================================================================
